---- MODULE Spec2Model ----
(***************************************************************************)
(* A model of the mock-interview engines of taslim19/aimock:               *)
(*   - QuestionGenerator (src/question_generator.py): template selection   *)
(*     without repetition, placeholder resolution, question typing;        *)
(*   - AnswerEvaluator (src/evaluator.py): the fast-fail test, the four    *)
(*     sub-scores, the overall score, feedback, strengths, improvements;   *)
(*   - the handlers of src/app.py: start_interview, which stores the       *)
(*     generated questions with their order numbers, submit_answer and     *)
(*     complete_interview.                                                 *)
(* Texts are TLA+ strings; TLC reads them character by character through   *)
(* Len, SubSeq and \o, so substring tests, replacement, lower-casing,      *)
(* trimming and splitting are computed as Python computes them.            *)
(* Scores are fixed-point numbers: a score of x points is the integer      *)
(* x * Scale, so that the products by 0.9, 1.1, 0.25, 0.30 and 0.20 are    *)
(* exact.                                                                  *)
(***************************************************************************)
EXTENDS Integers, Sequences, FiniteSets, TLC

VARIABLES
    gpc,            \* position of the generate_questions call
    request,        \* its arguments, and who called it
    domain,         \* the local `domain` after the default substitution
    questions,      \* the local list `questions`
    used_templates, \* the local set `used_templates`
    i,              \* number of loop iterations completed
    selected,       \* the value of the local `template` at each iteration
    returned,       \* the list generate_questions returned
    question_rows,  \* the Question rows start_interview stored
    fill_in,        \* arguments of a _fill_template call made on its own
    fill_out,       \* its result, with the type of the template
    domain_knowledge,   \* QuestionGenerator.domain_knowledge
    question_templates, \* QuestionGenerator.question_templates
    installed,      \* the models spacy.load finds on this machine
    cpc,            \* position of AnswerEvaluator.__init__
    attempts,       \* the models __init__ has passed to spacy.load, in order
    quality_indicators, \* AnswerEvaluator.quality_indicators
    minimum_length, \* AnswerEvaluator.minimum_length
    ideal_length,   \* AnswerEvaluator.ideal_length
    nlp,            \* AnswerEvaluator.nlp: the loaded model's name, or None
    spacy_available,\* AnswerEvaluator.spacy_available
    epc,            \* position of the evaluate_answer call
    call,           \* its arguments
    analysis,       \* what the loaded model reports about the two texts
    scores,         \* the locals clarity_score .. overall_score
    evaluation,     \* the dict evaluate_answer returned
    earlier,        \* history: a completed evaluate_answer call kept for comparison
    threads,        \* the locals of generate_questions calls running concurrently
    interviews,     \* the Interview rows, by id
    answers,        \* the Answer rows, by id
    profiles        \* the UserProfile row of each user

gen_vars == << gpc, request, domain, questions, used_templates, i, selected,
               returned, question_rows >>
fill_vars == << fill_in, fill_out >>
table_vars == << domain_knowledge, question_templates >>
\* the fields of the AnswerEvaluator object
evaluator_fields == << nlp, spacy_available, quality_indicators, minimum_length,
                       ideal_length >>
init_vars == << installed, cpc, attempts >>
call_vars == << epc, call, analysis, scores, evaluation >>
eval_vars == << evaluator_fields, init_vars, call_vars, earlier >>
\* the tables of the database that the interview handlers write
app_vars == << interviews, answers, profiles >>
vars == << gen_vars, fill_vars, table_vars, eval_vars, threads, app_vars >>

(***************************************************************************)
(* Bounds of the model.                                                    *)
(***************************************************************************)
\* Largest num_questions of a direct call (calls are made with -1..MaxCount).
MaxCount == 3
\* The calls draw from the first PoolLimit templates of a domain's table.
PoolLimit == 3
\* Outcomes of the random source explored per _fill_template call in a
\* generate_questions call: 0..MaxRnd.
MaxRnd == 1
\* Outcomes of the random source explored when _fill_template is called on
\* its own: 0..MaxFillRnd (4 groups x 6 x 5 ordered pairs = 120 outcomes).
MaxFillRnd == 119
\* The long answers are a base answer followed by 1..MaxPad filler sentences.
MaxPad == 3
\* The calls made since the kept call are counted up to MaxSince.
MaxSince == 2

(***************************************************************************)
(* Python's str and list operations.                                       *)
(***************************************************************************)
Min(a, b) == IF a < b THEN a ELSE b
Max(a, b) == IF a > b THEN a ELSE b
Range(s) == { s[k] : k \in 1..Len(s) }

\* Python's None: a value that no text of the model equals.
None == "<None>"

\* The positions at which p occurs in s.
Occurrences(p, s) ==
    { k \in 1..(Len(s) - Len(p) + 1) : SubSeq(s, k, k + Len(p) - 1) = p }

\* p in s, by search
Search(p, s) == Occurrences(p, s) # {}

UpperChars == "ABCDEFGHIJKLMNOPQRSTUVWXYZ"
LowerChars == "abcdefghijklmnopqrstuvwxyz"
Digits == "0123456789"
Whitespace == " \t\n\r"

\* c.isupper() for one character
IsUpper(c) == Len(c) = 1 /\ Search(c, UpperChars)

\* c.lower() for one character
LowerChar(c) ==
    IF IsUpper(c)
    THEN LET k == CHOOSE k \in 1..Len(UpperChars) : SubSeq(UpperChars, k, k) = c
         IN  SubSeq(LowerChars, k, k)
    ELSE c

\* s.lower(), character by character
RECURSIVE ToLower(_)
ToLower(s) ==
    IF Len(s) <= 1 THEN LowerChar(s)
    ELSE LET h == Len(s) \div 2
         IN  ToLower(SubSeq(s, 1, h)) \o ToLower(SubSeq(s, h + 1, Len(s)))

\* s.strip(): s without its leading and trailing whitespace
Strip(s) ==
    LET inked == { k \in 1..Len(s) : ~Search(SubSeq(s, k, k), Whitespace) }
    IN  IF inked = {} THEN ""
        ELSE SubSeq(s, CHOOSE k \in inked : \A m \in inked : k <= m,
                       CHOOSE k \in inked : \A m \in inked : k >= m)

TerminalPunctuation == ".!?"
IsTerminal(s, k) == Search(SubSeq(s, k, k), TerminalPunctuation)

\* Faulty variant: an empty segment after a run that ends the text is not
\* counted.
SplitSentencesNoEmptyTail(s) ==
    1 + Cardinality({ k \in 1..Len(s) :
                        /\ IsTerminal(s, k) /\ (k = 1 \/ ~IsTerminal(s, k - 1))
                        /\ \E m \in k..Len(s) : ~IsTerminal(s, m) })

\* len(re.split(r'[.!?]+', s)): one more than the number of maximal runs of
\* the characters . ! ? (a run at either end leaves an empty segment).
SplitSentences(s) ==
    1 + Cardinality({ k \in 1..Len(s) :
                        IsTerminal(s, k) /\ (k = 1 \/ ~IsTerminal(s, k - 1)) })

\* re.findall(r'\b\w+\b', s) on a lower-cased s: its maximal runs of
\* letters, digits and underscores, in order.
WordChars == LowerChars \o Digits \o "_"
IsWordChar(s, k) == Search(SubSeq(s, k, k), WordChars)
FindWords(s) ==
    LET starts == { k \in 1..Len(s) :
                      IsWordChar(s, k) /\ (k = 1 \/ ~IsWordChar(s, k - 1)) }
        EndOf(k) == CHOOSE e \in k..Len(s) :
                      /\ \A m \in k..e : IsWordChar(s, m)
                      /\ (e = Len(s) \/ ~IsWordChar(s, e + 1))
        Nth(n) == CHOOSE k \in starts : Cardinality({ m \in starts : m < k }) = n - 1
    IN  [ n \in 1..Cardinality(starts) |-> SubSeq(s, Nth(n), EndOf(Nth(n))) ]

\* sep.join(parts)
RECURSIVE Join(_, _)
Join(sep, parts) ==
    IF parts = << >> THEN ""
    ELSE IF Len(parts) = 1 THEN parts[1]
    ELSE parts[1] \o sep \o Join(sep, Tail(parts))

\* s * n
RECURSIVE Repeat(_, _)
Repeat(s, n) == IF n <= 0 THEN "" ELSE s \o Repeat(s, n - 1)

\* random.choice(seq), the random source having produced r
Choice(seq, r) == seq[(r % Len(seq)) + 1]

\* random.sample(seq, 2): two members at distinct positions, in the order drawn
Sample2(seq, r) ==
    LET n == Len(seq)
        a == (r % n) + 1
        rest == [k \in 1..(n - 1) |-> IF k < a THEN seq[k] ELSE seq[k + 1]]
    IN  << seq[a], Choice(rest, r \div n) >>

\* A Python dict whose items are kept in insertion order is a sequence of
\* << key, value >> pairs.
DictValues(d) == [k \in 1..Len(d) |-> d[k][2]]
DictGet(d, key) == (CHOOSE k \in Range(d) : k[1] = key)[2]

(***************************************************************************)
(* AnswerEvaluator: the tables built by __init__ and the word lists of     *)
(* the scoring methods.                                                    *)
(***************************************************************************)
models_to_try == << "en_core_web_md", "en_core_web_lg", "en_core_web_sm" >>

\* The models by what the comments of models_to_try say of them: the large
\* one has the best accuracy, the medium one is recommended, the small one
\* has no word vectors; the most capable first.
by_capability == << "en_core_web_lg", "en_core_web_md", "en_core_web_sm" >>

\* The dict __init__ assigns to self.quality_indicators.
indicator_lists == [
    positive |-> << "experience", "implemented", "successful", "achieved", "improved",
                    "solved", "developed", "managed", "led", "collaborated", "optimized",
                    "analyzed", "designed", "delivered", "exceeded", "enhanced" >>,
    negative |-> << "didn't", "couldn't", "failed", "unable", "lack", "limited",
                    "struggled", "difficult", "problem", "issue", "challenge" >>,
    technical |-> << "algorithm", "architecture", "framework", "methodology", "pattern",
                     "optimization", "scalability", "performance", "security", "database",
                     "api", "microservice", "deployment", "testing", "debugging" >>,
    communication |-> << "clearly", "effectively", "communicated", "explained", "presented",
                         "discussed", "collaborated", "coordinated", "aligned", "understood" >> ]

\* self.minimum_length = 20, self.ideal_length = 100
MinimumLength == 20
IdealLength == 100

\* _evaluate_accuracy
technical_question_cues == << "explain", "what is", "difference", "how" >>
example_cues == << "example", "instance", "case", "time when" >>
\* _evaluate_communication
transition_words == << "first", "second", "then", "finally", "additionally",
                       "however", "therefore", "moreover", "furthermore", "consequently" >>
structure_words == << "first", "second", "then", "finally", "additionally",
                      "however", "therefore" >>
\* _evaluate_confidence
confident_phrases == << "i am confident", "i believe", "i know", "i have experience",
                        "i successfully", "i achieved", "i implemented", "i led" >>
hedging_phrases == << "maybe", "perhaps", "i think", "i guess", "not sure", "uncertain" >>
experience_cues == << "when i", "in my experience", "i have" >>
\* _identify_strengths
strength_example_cues == << "example", "instance", "experience" >>
\* _extract_keywords
stop_words == { "the", "a", "an", "and", "or", "but", "in", "on", "at",
                "to", "for", "of", "with", "by", "is", "are", "was", "were",
                "be", "been", "being", "have", "has", "had", "do", "does", "did",
                "will", "would", "should", "could", "may", "might", "must",
                "this", "that", "these", "those", "i", "you", "he", "she", "it", "we", "they" }

(***************************************************************************)
(* The inputs evaluate_answer is called with.                              *)
(***************************************************************************)
Filler == "The project ran for two quarters and the team met every week to review progress and plan the next steps. "

ShortAnswers == {
    "",
    "hi",
    "    hi   x    ",
    "123456789",
    "1234567890",
    "I know SQL well",
    "Well... that depends!",
    "we shipped the release on time",
    "Really, really, really, really, really, really, really, really, really, really big difference between them",
    "maybe perhaps i think i guess i am not sure and uncertain, a difficult problem, i failed, unable, lack of time",
    "The difference between SQL and NoSQL is the schema, for instance a database with an api tuned for performance and security.",
    "I am confident. I believe I know this: I have experience, I successfully led, implemented and achieved an optimized database api architecture. For example, first we collaborated, then clearly communicated and finally explained the algorithm." }

PadBases == { "First, I have experience with testing deadlines. ", "and so it goes " }
LongAnswers == { base \o Repeat(Filler, k) : base \in PadBases, k \in 1..MaxPad }

AnswerTexts == ShortAnswers \cup LongAnswers
\* the answer may be missing
Answers == AnswerTexts \cup { None }

Questions == {
    "What is the difference between SQL and NoSQL?",
    "Tell me about yourself and your professional background.",
    "How do you handle tight deadlines in the workplace?" }

\* 'easy', 'medium', 'hard'; another letter case, an unknown name, None
EvalDifficulties == { "easy", "medium", "hard", "Hard", "expert", None }

\* What a loaded model reports about an answer and a question: the token
\* count of each sentence of the answer, whether it holds a punctuation
\* token, a verb, a noun; the similarity of the two texts in thousandths;
\* the number of shared entities and of shared noun/verb lemmas; the number
\* of transition-word lemmas and of conjunctions in the answer.
Analyses == {
    [ sentences |-> << 60 >>, punct |-> FALSE, verbs |-> FALSE, nouns |-> FALSE,
      similarity |-> -1000, entity_overlap |-> 0, keyword_overlap |-> 0,
      transitions |-> 0, conjunctions |-> 0 ],
    [ sentences |-> << 8 >>, punct |-> TRUE, verbs |-> TRUE, nouns |-> FALSE,
      similarity |-> 0, entity_overlap |-> 0, keyword_overlap |-> 1,
      transitions |-> 1, conjunctions |-> 2 ],
    [ sentences |-> << 12, 15 >>, punct |-> TRUE, verbs |-> TRUE, nouns |-> TRUE,
      similarity |-> 337, entity_overlap |-> 1, keyword_overlap |-> 2,
      transitions |-> 1, conjunctions |-> 2 ],
    [ sentences |-> << 10, 25, 30 >>, punct |-> TRUE, verbs |-> TRUE, nouns |-> TRUE,
      similarity |-> 1000, entity_overlap |-> 4, keyword_overlap |-> 8,
      transitions |-> 4, conjunctions |-> 6 ] }
\* no model is loaded: nothing is reported
NoAnalysis == [ sentences |-> << >>, punct |-> FALSE, verbs |-> FALSE, nouns |-> FALSE,
                similarity |-> 0, entity_overlap |-> 0, keyword_overlap |-> 0,
                transitions |-> 0, conjunctions |-> 0 ]

\* The inputs of the calls that are made one after another.
RepeatAnswers == { "hi", "I know SQL well", "and so it goes " \o Filler }
RepeatQuestions == { "What is the difference between SQL and NoSQL?" }
RepeatDifficulties == { "easy", None }
RepeatAnalyses == { a \in Analyses : a.keyword_overlap \in { 0, 2 } }

(***************************************************************************)
(* `p in s` and s.lower() are looked up for the texts and word lists above *)
(* (the tables hold what Search and ToLower compute, computed once) and    *)
(* computed by Search and ToLower for every other text.                    *)
(***************************************************************************)
EvalTexts == AnswerTexts \cup Questions
Lowered == [ s \in EvalTexts |-> ToLower(s) ]
SearchedTexts == EvalTexts \cup { Lowered[s] : s \in EvalTexts }
SearchedWords ==
    Range(indicator_lists.positive) \cup Range(indicator_lists.negative)
    \cup Range(indicator_lists.technical) \cup Range(indicator_lists.communication)
    \cup Range(technical_question_cues) \cup Range(example_cues)
    \cup Range(structure_words) \cup Range(confident_phrases) \cup Range(hedging_phrases)
    \cup Range(experience_cues) \cup Range(strength_example_cues) \cup { ".", "!", "?" }
Found == [ s \in SearchedTexts |-> { p \in SearchedWords : Search(p, s) } ]

\* s.lower()
Lower(s) == IF s \in DOMAIN Lowered THEN Lowered[s] ELSE ToLower(s)

\* p in s
In(p, s) ==
    IF s \in DOMAIN Found /\ p \in SearchedWords THEN p \in Found[s] ELSE Search(p, s)

\* s.replace(old, new): every non-overlapping occurrence, left to right.
RECURSIVE Replace(_, _, _)
Replace(s, old, new) ==
    IF ~In(old, s) THEN s
    ELSE LET k == CHOOSE k \in Occurrences(old, s) :
                      \A m \in Occurrences(old, s) : k <= m
         IN  SubSeq(s, 1, k - 1) \o new
                \o Replace(SubSeq(s, k + Len(old), Len(s)), old, new)

(***************************************************************************)
(* QuestionGenerator: the tables built by __init__.                        *)
(***************************************************************************)
DefaultDomain == "IT/Software Engineering"

load_domain_knowledge ==
  ("IT/Software Engineering" :> [
      topics |-> <<
          "Object-Oriented Programming", "Data Structures", "Algorithms",
          "Database Design", "RESTful APIs", "Microservices Architecture",
          "Cloud Computing", "DevOps", "Software Testing",
          "Version Control", "Design Patterns", "System Design",
          "Security", "Performance Optimization" >>,
      concepts |-> <<
          << "OOP", << "Encapsulation", "Inheritance", "Polymorphism", "Abstraction" >> >>,
          << "Data Structures", << "Arrays", "Linked Lists", "Stacks", "Queues", "Trees", "Graphs" >> >>,
          << "Algorithms", << "Sorting", "Searching", "Dynamic Programming", "Greedy Algorithms" >> >>,
          << "Databases", << "SQL", "NoSQL", "ACID Properties", "Normalization", "Indexing" >> >> >>,
      technologies |-> <<
          "Python", "Java", "JavaScript",
          "React", "Node.js", "Docker",
          "Kubernetes" >> ])
  @@ ("HR/Human Resources" :> [
      topics |-> <<
          "Teamwork", "Leadership", "Problem Solving",
          "Communication", "Time Management", "Conflict Resolution",
          "Adaptability", "Work Ethics" >>,
      situations |-> <<
          "worked under pressure", "handled a difficult situation", "led a team project",
          "resolved a conflict", "learned a new skill", "made a mistake",
          "achieved a goal", "worked with a difficult colleague" >>,
      challenges |-> <<
          "tight deadlines", "conflicting priorities", "team disagreements",
          "unclear requirements", "resource constraints" >> ])
  @@ ("Finance" :> [
      topics |-> <<
          "Financial Analysis", "Investment Banking", "Risk Management",
          "Accounting Principles", "Financial Modeling", "Market Analysis",
          "Portfolio Management", "Corporate Finance" >>,
      concepts |-> <<
          << "Analysis", << "DCF", "NPV", "IRR", "ROI", "Financial Ratios" >> >>,
          << "Markets", << "Stock Market", "Bond Market", "Derivatives", "Forex" >> >>,
          << "Tools", << "Excel", "Bloomberg", "Financial Statements", "Valuation Models" >> >> >>,
      scenarios |-> <<
          "company valuation", "investment decision", "risk assessment",
          "market trend analysis", "financial planning" >> ])
  @@ ("Management" :> [
      topics |-> <<
          "Leadership", "Strategic Planning", "Team Management",
          "Change Management", "Decision Making", "Performance Management" >>,
      situations |-> <<
          "leading a team", "managing a project", "handling underperformance",
          "implementing change", "making strategic decisions" >>,
      styles |-> <<
          "Transformational", "Transactional", "Servant Leadership",
          "Democratic", "Autocratic" >> ])

load_question_templates ==
  ("IT/Software Engineering" :> <<
      "Explain {topic} and its importance in software development.",
      "What is the difference between {concept1} and {concept2}?",
      "How would you design a system to handle {scenario}?",
      "Describe your experience with {technology}. What challenges did you face?",
      "What are the best practices for implementing {topic}?",
      "How would you optimize a {component} for better performance?",
      "Explain the trade-offs between {option1} and {option2}.",
      "How do you ensure code quality when working with {technology}?",
      "Describe a time when you had to debug a complex issue related to {topic}.",
      "What security considerations should be taken when working with {technology}?" >>)
  @@ ("HR/Human Resources" :> <<
      "Tell me about yourself and your professional background.",
      "Describe a time when you {situation}. What was the outcome?",
      "How do you handle {challenge} in the workplace?",
      "What are your greatest strengths and how do they help you in your role?",
      "Can you share an example of a weakness you've worked on improving?",
      "Why are you interested in this position and our company?",
      "How do you prioritize tasks when you have multiple deadlines?",
      "Describe a situation where you had to work with a difficult team member.",
      "How do you stay motivated during challenging projects?",
      "Where do you see yourself in 5 years?" >>)
  @@ ("Finance" :> <<
      "Explain {concept} and its application in financial analysis.",
      "How would you analyze {scenario} from a financial perspective?",
      "What factors would you consider when evaluating {investment_type}?",
      "Describe your experience with {tool} and how you've used it in analysis.",
      "How do you assess the financial health of a company?",
      "Explain the impact of {event} on financial markets.",
      "What is your approach to risk management in {context}?",
      "How would you present financial data to non-financial stakeholders?",
      "Describe a time when your financial analysis led to an important decision.",
      "What trends do you see in the current financial market?" >>)
  @@ ("Management" :> <<
      "How do you motivate and inspire your team members?",
      "Describe a time when you had to make a difficult decision as a manager.",
      "How do you handle conflict within your team?",
      "What is your leadership style and how has it evolved?",
      "How do you prioritize tasks and manage your team's workload?",
      "Describe a situation where you had to manage an underperforming team member.",
      "How do you ensure effective communication within your team?",
      "What strategies do you use for change management?",
      "How do you balance the needs of your team with organizational goals?",
      "Describe your approach to developing and mentoring team members." >>)

NoRequest == [ domain |-> "", num_questions |-> 0, difficulty |-> "medium",
               caller |-> "none" ]

KnownDomains == DOMAIN load_domain_knowledge

(***************************************************************************)
(* QuestionGenerator._fill_template, the random source having produced     *)
(* rnd: the first draw reads rnd, a second draw reads what the first left. *)
(***************************************************************************)
ITScenarios == << "high traffic", "data consistency", "scalability", "security" >>
ITComponents == << "database query", "API endpoint", "frontend component", "algorithm" >>
ITOptions == << << "SQL", "NoSQL" >>, << "Monolithic", "Microservices" >>,
                << "Synchronous", "Asynchronous" >>, << "Caching", "Database queries" >> >>
FinanceInvestments == << "stocks", "bonds", "real estate", "startups", "mutual funds" >>
FinanceEvents == << "interest rate changes", "market volatility",
                    "economic recession", "regulatory changes" >>
FinanceContexts == << "portfolio management", "corporate finance", "investment banking" >>

\* all_concepts: the members of every concept group, in order
RECURSIVE Extend(_)
Extend(lists) == IF lists = << >> THEN << >> ELSE Head(lists) \o Extend(Tail(lists))

\* Faulty variant: the second placeholder of a pair is left in the text.
ResolvePairFirstOnly(template, first, second, values) ==
    Replace(template, first, values[1])

\* question.replace(first, values[0]), then question.replace(second, values[1])
ResolvePair(template, first, second, values) ==
    Replace(Replace(template, first, values[1]), second, values[2])

fill_template(template, dom, knowledge, difficulty, rnd) ==
    IF dom = "IT/Software Engineering" THEN
        IF In("{topic}", template) THEN
            Replace(template, "{topic}", Choice(knowledge.topics, rnd))
        ELSE IF In("{concept1}", template) /\ In("{concept2}", template) THEN
            LET groups == DictValues(knowledge.concepts)
                concept_pair == Choice(groups, rnd)
            IN  IF Len(concept_pair) >= 2
                THEN ResolvePair(template, "{concept1}", "{concept2}",
                                 Sample2(concept_pair, rnd \div Len(groups)))
                ELSE template
        ELSE IF In("{technology}", template) THEN
            Replace(template, "{technology}", Choice(knowledge.technologies, rnd))
        ELSE IF In("{scenario}", template) THEN
            Replace(template, "{scenario}", Choice(ITScenarios, rnd))
        ELSE IF In("{component}", template) THEN
            Replace(template, "{component}", Choice(ITComponents, rnd))
        ELSE IF In("{option1}", template) /\ In("{option2}", template) THEN
            ResolvePair(template, "{option1}", "{option2}", Choice(ITOptions, rnd))
        ELSE template
    ELSE IF dom = "HR/Human Resources" THEN
        IF In("{situation}", template) THEN
            Replace(template, "{situation}", Choice(knowledge.situations, rnd))
        ELSE IF In("{challenge}", template) THEN
            Replace(template, "{challenge}", Choice(knowledge.challenges, rnd))
        ELSE template
    ELSE IF dom = "Finance" THEN
        IF In("{concept}", template) THEN
            LET all_concepts == Extend(DictValues(knowledge.concepts))
            IN  IF all_concepts # << >>
                THEN Replace(template, "{concept}", Choice(all_concepts, rnd))
                ELSE template
        ELSE IF In("{scenario}", template) THEN
            Replace(template, "{scenario}", Choice(knowledge.scenarios, rnd))
        ELSE IF In("{investment_type}", template) THEN
            Replace(template, "{investment_type}", Choice(FinanceInvestments, rnd))
        ELSE IF In("{tool}", template) THEN
            Replace(template, "{tool}", Choice(DictGet(knowledge.concepts, "Tools"), rnd))
        ELSE IF In("{event}", template) THEN
            Replace(template, "{event}", Choice(FinanceEvents, rnd))
        ELSE IF In("{context}", template) THEN
            Replace(template, "{context}", Choice(FinanceContexts, rnd))
        ELSE template
    ELSE IF dom = "Management" THEN
        IF In("{situation}", template) THEN
            Replace(template, "{situation}", Choice(knowledge.situations, rnd))
        ELSE template
    ELSE template

(***************************************************************************)
(* QuestionGenerator._determine_question_type                              *)
(***************************************************************************)
BehavioralCues == { "describe", "tell me", "share", "time when" }
SituationalCues == { "how would", "how do", "what would" }
TechnicalCues == { "explain", "what is", "difference between" }

\* Templates that hold cues of several types, of one type in capitals, or of
\* none: inputs on which the order of the tests shows.
CueTemplates ==
    { "Describe how would you explain {topic}.",
      "Tell me how do you keep up with {technology}.",
      "Share what is hard about {topic}.",
      "How would you explain {topic} to a beginner?",
      "What would be the difference between {concept1} and {concept2}?",
      "DESCRIBE {topic}.",
      "Why does {topic} matter?" }

\* Faulty variant: the technical cues are tested first.
TechnicalCuesFirst(template, dom) ==
    LET template_lower == Lower(template)
    IN  IF \E word \in TechnicalCues : In(word, template_lower) THEN "technical"
        ELSE IF \E word \in BehavioralCues : In(word, template_lower) THEN "behavioral"
        ELSE IF \E word \in SituationalCues : In(word, template_lower) THEN "situational"
        ELSE "general"

determine_question_type(template, dom) ==
    LET template_lower == Lower(template)
    IN  IF \E word \in BehavioralCues : In(word, template_lower) THEN "behavioral"
        ELSE IF \E word \in SituationalCues : In(word, template_lower) THEN "situational"
        ELSE IF \E word \in TechnicalCues : In(word, template_lower) THEN "technical"
        ELSE "general"

(***************************************************************************)
(* QuestionGenerator.generate_questions, one loop iteration per step.      *)
(***************************************************************************)
\* The domain names a call is made with: the four known ones, an unknown
\* one and the empty name.
RequestDomains == KnownDomains \cup { "Marketing", "" }
Difficulties == { "easy", "medium", "hard" }

\* Faulty variant: the requested domain is used as it came.
SubstituteDomainAbsent(d) == d

\* domain = 'IT/Software Engineering' if domain not in self.domain_knowledge
SubstituteDomain(d) == IF d \notin DOMAIN domain_knowledge THEN DefaultDomain ELSE d

\* templates = self.question_templates.get(domain, [])
TemplatesOf(d) ==
    IF d \in DOMAIN question_templates
    THEN SubSeq(question_templates[d], 1, Min(PoolLimit, Len(question_templates[d])))
    ELSE << >>

templates == TemplatesOf(domain)

\* What _fill_template and _determine_question_type return to
\* generate_questions, computed once for each argument it can pass.
Filled ==
    [ d \in KnownDomains |-> [ t \in Range(load_question_templates[d]) |->
        [ difficulty \in Difficulties |-> [ rnd \in 0..MaxRnd |->
            fill_template(t, d, load_domain_knowledge[d], difficulty, rnd) ] ] ] ]
Typed ==
    [ d \in KnownDomains |-> [ t \in Range(load_question_templates[d]) |->
        determine_question_type(t, d) ] ]

\* self._fill_template(template, domain, knowledge, difficulty)
FillTemplate(template, dom, difficulty, rnd) ==
    IF dom \in DOMAIN Filled /\ template \in DOMAIN Filled[dom]
          /\ difficulty \in Difficulties /\ rnd \in 0..MaxRnd
          /\ domain_knowledge[dom] = load_domain_knowledge[dom]
    THEN Filled[dom][template][difficulty][rnd]
    ELSE fill_template(template, dom, domain_knowledge[dom], difficulty, rnd)

\* self._determine_question_type(template, domain)
QuestionType(template, dom) ==
    IF dom \in DOMAIN Typed /\ template \in DOMAIN Typed[dom]
    THEN Typed[dom][template]
    ELSE determine_question_type(template, dom)

\* Faulty variant: the loop runs until the counter equals the count.
InRangeNotEqual(k, num_questions) == k # num_questions

\* for i in range(num_questions): whether another iteration follows
InRange(k, num_questions) == k < num_questions

\* Faulty variant: the last unused template is not offered, so the used set
\* is emptied one selection early.
AvailableTemplatesResetEarly(tpls, used) ==
    LET unused == SelectSeq(tpls, LAMBDA t : t \notin used)
    IN  IF Len(unused) < 2 THEN << >> ELSE unused

\* Faulty variant: used templates are not filtered out.
AvailableTemplatesUnfiltered(tpls, used) == tpls

\* available_templates = [t for t in templates if t not in used_templates]
AvailableTemplates(tpls, used) == SelectSeq(tpls, LAMBDA t : t \notin used)

\* questions.append({...})
QuestionRecord(text, type, difficulty, dom) ==
    [ text |-> text, type |-> type, difficulty |-> difficulty, domain |-> dom ]

GenCall(d, n, difficulty, caller) ==
    /\ gpc = "idle"
    /\ request' = [ domain |-> d, num_questions |-> n,
                    difficulty |-> difficulty, caller |-> caller ]
    /\ domain' = SubstituteDomain(d)
    /\ questions' = << >>
    /\ used_templates' = {}
    /\ i' = 0
    /\ selected' = << >>
    \* knowledge = self.domain_knowledge[domain] raises KeyError for a domain
    \* that has no entry
    /\ gpc' = IF SubstituteDomain(d) \in DOMAIN domain_knowledge THEN "loop" ELSE "raised"
    /\ UNCHANGED << returned, question_rows, fill_vars, table_vars, app_vars, eval_vars, threads >>

\* A call of generate_questions by any caller.
Generate ==
    \E d \in RequestDomains, n \in -1..MaxCount, difficulty \in Difficulties :
        GenCall(d, n, difficulty, "direct")

\* start_interview: generate_questions(domain_name, num_questions=5)
InterviewQuestions == 5

StartInterview ==
    \E d \in RequestDomains : GenCall(d, InterviewQuestions, "medium", "start_interview")

\* A call that asks for twice as many questions as the pool holds templates.
GenerateRounds ==
    GenCall("HR/Human Resources", 2 * PoolLimit, "medium", "direct")

\* One iteration of `for i in range(num_questions)`; random.choice raises
\* IndexError on an empty list.
GenStep ==
    /\ gpc = "loop"
    /\ InRange(i, request.num_questions)
    /\ LET filtered == AvailableTemplates(templates, used_templates)
           exhausted == filtered = << >>
           available_templates == IF exhausted THEN templates ELSE filtered
           used == IF exhausted THEN {} ELSE used_templates
       IN  IF available_templates = << >>
           THEN /\ gpc' = "raised"
                /\ UNCHANGED << used_templates, selected, questions, i >>
           ELSE /\ \E template \in Range(available_templates), rnd \in 0..MaxRnd :
                     /\ used_templates' = used \cup { template }
                     /\ selected' = Append(selected, template)
                     /\ questions' = Append(questions,
                            QuestionRecord(
                                FillTemplate(template, domain, request.difficulty, rnd),
                                QuestionType(template, domain),
                                request.difficulty, domain))
                /\ i' = i + 1
                /\ gpc' = gpc
    /\ UNCHANGED << request, domain, returned, question_rows, fill_vars, table_vars, app_vars,
                    eval_vars, threads >>

\* return questions
GenReturn ==
    /\ gpc = "loop"
    /\ ~InRange(i, request.num_questions)
    /\ returned' = questions
    /\ gpc' = "returned"
    /\ UNCHANGED << request, domain, questions, used_templates, i, selected,
                    question_rows, fill_vars, table_vars, app_vars, eval_vars, threads >>

\* Faulty variant: the ordinal is the zero-based index.
QuestionRowZeroBased(idx, q_data) ==
    [ question_text |-> q_data.text, question_type |-> q_data.type,
      difficulty |-> q_data.difficulty, order_number |-> idx ]

\* start_interview: for idx, q_data in enumerate(questions): Question(...)
QuestionRow(idx, q_data) ==
    [ question_text |-> q_data.text, question_type |-> q_data.type,
      difficulty |-> q_data.difficulty, order_number |-> idx + 1 ]

StoreQuestions ==
    /\ gpc = "returned"
    /\ request.caller = "start_interview"
    /\ question_rows' = [ k \in 1..Len(returned) |-> QuestionRow(k - 1, returned[k]) ]
    /\ gpc' = "stored"
    /\ UNCHANGED << request, domain, questions, used_templates, i, selected,
                    returned, fill_vars, table_vars, app_vars, eval_vars, threads >>

(***************************************************************************)
(* generate_questions called from several threads on one QuestionGenerator.*)
(* Each call has its own locals; a thread is preempted between choosing a  *)
(* template and appending the question made from it.                       *)
(***************************************************************************)
ThreadIds == { "first", "second" }
ThreadDomains == { "IT/Software Engineering", "Marketing" }
\* no question, or one more than the pool holds
ThreadCounts == { 0, PoolLimit + 1 }

IdleFrame ==
    [ pc |-> "idle", request |-> NoRequest, domain |-> DefaultDomain,
      questions |-> << >>, used_templates |-> {}, i |-> 0, selected |-> << >>,
      returned |-> << >> ]
NoThreads == [ t \in ThreadIds |-> IdleFrame ]

\* Faulty variant: one used set is kept on the generator for all its calls.
UsedTemplatesShared(frames, t) == UNION { frames[u].used_templates : u \in DOMAIN frames }

\* used_templates = set(): the set is a local of the call
UsedTemplatesOf(frames, t) == frames[t].used_templates

\* The call, up to the loop.
ThreadCall(t) ==
    /\ threads[t].pc = "idle"
    /\ \E d \in ThreadDomains, n \in ThreadCounts :
         threads' = [ threads EXCEPT ![t] =
             [ pc |-> IF SubstituteDomain(d) \in DOMAIN domain_knowledge
                      THEN "loop" ELSE "raised",
               request |-> [ domain |-> d, num_questions |-> n,
                             difficulty |-> "medium", caller |-> t ],
               domain |-> SubstituteDomain(d),
               questions |-> << >>, used_templates |-> {}, i |-> 0,
               selected |-> << >>, returned |-> << >> ] ]
    /\ UNCHANGED << gen_vars, fill_vars, table_vars, app_vars, eval_vars >>

\* First half of an iteration: a template is chosen and added to the used set.
ThreadSelect(t) ==
    LET frame == threads[t]
        tpls == TemplatesOf(frame.domain)
        seen == UsedTemplatesOf(threads, t)
        filtered == AvailableTemplates(tpls, seen)
        exhausted == filtered = << >>
        available_templates == IF exhausted THEN tpls ELSE filtered
        used == IF exhausted THEN {} ELSE frame.used_templates
    IN  /\ frame.pc = "loop"
        /\ InRange(frame.i, frame.request.num_questions)
        /\ IF available_templates = << >>
           THEN threads' = [ threads EXCEPT ![t].pc = "raised" ]
           ELSE \E template \in Range(available_templates) :
                   threads' = [ threads EXCEPT
                                   ![t].used_templates = used \cup { template },
                                   ![t].selected = Append(frame.selected, template),
                                   ![t].pc = "chosen" ]
        /\ UNCHANGED << gen_vars, fill_vars, table_vars, app_vars, eval_vars >>

\* Second half: the question is made from the template and appended.
ThreadAppend(t) ==
    LET frame == threads[t]
        template == frame.selected[Len(frame.selected)]
    IN  /\ frame.pc = "chosen"
        /\ threads' = [ threads EXCEPT
                           ![t].questions = Append(frame.questions,
                               QuestionRecord(
                                   FillTemplate(template, frame.domain,
                                                frame.request.difficulty, 0),
                                   QuestionType(template, frame.domain),
                                   frame.request.difficulty, frame.domain)),
                           ![t].i = frame.i + 1,
                           ![t].pc = "loop" ]
        /\ UNCHANGED << gen_vars, fill_vars, table_vars, app_vars, eval_vars >>

\* return questions
ThreadReturn(t) ==
    /\ threads[t].pc = "loop"
    /\ ~InRange(threads[t].i, threads[t].request.num_questions)
    /\ threads' = [ threads EXCEPT ![t].returned = threads[t].questions,
                                   ![t].pc = "returned" ]
    /\ UNCHANGED << gen_vars, fill_vars, table_vars, app_vars, eval_vars >>


(***************************************************************************)
(* AnswerEvaluator.__init__: the models are tried in order and the first   *)
(* that loads is kept.                                                     *)
(***************************************************************************)
LoadModel(available) ==
    LET loadable == { k \in 1..Len(models_to_try) : models_to_try[k] \in available }
    IN  IF loadable = {} THEN None
        ELSE models_to_try[CHOOSE k \in loadable : \A m \in loadable : k <= m]

\* if self.spacy_available and self.nlp
UsesModel == spacy_available /\ nlp # None

(***************************************************************************)
(* Scores. A score of x points is the integer x * Scale.                   *)
(***************************************************************************)
Scale == 100 * 100
Pts(x) == x * Scale

\* round(x, 2): to the nearest hundredth of a point, a tie to the even one
Round2(x) ==
    LET step == Scale \div 100
        q == x \div step
        r == x % step
    IN  IF 2 * r > step \/ (2 * r = step /\ q % 2 = 1) THEN (q + 1) * step
        ELSE q * step

RECURSIVE Sum(_)
Sum(seq) == IF seq = << >> THEN 0 ELSE Head(seq) + Sum(Tail(seq))

\* sum(1 for word in words if word in text)
CountIn(words, text) == Cardinality({ k \in 1..Len(words) : In(words[k], text) })
\* any(word in text for word in words)
AnyIn(words, text) == \E k \in 1..Len(words) : In(words[k], text)

(***************************************************************************)
(* AnswerEvaluator._evaluate_clarity                                       *)
(***************************************************************************)
evaluate_clarity(answer_text, answer_length) ==
    LET base == Pts(50)
                + (IF answer_length >= minimum_length THEN Pts(20) ELSE 0)
                + (IF minimum_length <= answer_length /\ answer_length <= ideal_length * 2
                   THEN Pts(10) ELSE 0)
        sentences == analysis.sentences
        total == Sum(sentences)
        n == Len(sentences)
        \* avg_sentence_length = total / n, or 0 without sentences
        with_model ==
              (IF n > 1 THEN Pts(10) ELSE 0)
            + (IF n > 0 /\ 10 * n <= total /\ total <= 30 * n THEN Pts(10)
               ELSE IF n > 0 /\ total > 50 * n THEN 0 - Pts(5) ELSE 0)
            + (IF analysis.punct THEN Pts(5) ELSE 0)
            + (IF analysis.verbs /\ analysis.nouns THEN Pts(5) ELSE 0)
        without_model ==
              (IF SplitSentences(answer_text) > 1 THEN Pts(10) ELSE 0)
            + (IF \E punct \in { ".", "!", "?" } : In(punct, answer_text)
               THEN Pts(5) ELSE 0)
        score == base + (IF UsesModel THEN with_model ELSE without_model)
                      + (IF IsUpper(SubSeq(answer_text, 1, 1)) THEN Pts(5) ELSE 0)
    IN  Min(score, Pts(100))

(***************************************************************************)
(* AnswerEvaluator._extract_keywords, as _evaluate_accuracy calls it:      *)
(* without a model.                                                        *)
(***************************************************************************)
extract_keywords(text) ==
    LET words == FindWords(Lower(text))
        keywords == SelectSeq(words, LAMBDA w : w \notin stop_words /\ Len(w) > 3)
    IN  SubSeq(keywords, 1, Min(10, Len(keywords)))

Keywords == [ s \in EvalTexts |-> extract_keywords(s) ]
KeywordsOf(text) == IF text \in DOMAIN Keywords THEN Keywords[text] ELSE extract_keywords(text)

(***************************************************************************)
(* AnswerEvaluator._evaluate_accuracy                                      *)
(***************************************************************************)
\* The score accumulated before the difficulty adjustment.
accumulated_accuracy_in(answer_text, question_text, uses_model, reported) ==
    LET answer_lower == Lower(answer_text)
        question_lower == Lower(question_text)
        with_model ==
              (reported.similarity * 30 * Scale) \div 1000
            + (IF reported.entity_overlap > 0
               THEN Pts(Min(reported.entity_overlap * 5, 15)) ELSE 0)
            + (IF reported.keyword_overlap > 0
               THEN Pts(Min(reported.keyword_overlap * 3, 20)) ELSE 0)
        overlap == Cardinality(Range(KeywordsOf(question_text))
                               \cap Range(KeywordsOf(answer_text)))
        without_model == IF overlap > 0 THEN Pts(Min(overlap * 10, 30)) ELSE 0
        technical_count == CountIn(quality_indicators.technical, answer_lower)
    IN  Pts(40)
        + (IF uses_model THEN with_model ELSE without_model)
        + (IF AnyIn(technical_question_cues, question_lower)
           THEN Pts(Min(technical_count * 5, 20)) ELSE 0)
        + (IF AnyIn(example_cues, answer_lower) THEN Pts(10) ELSE 0)

\* The score of the call under way, before the difficulty adjustment.
accumulated_accuracy(answer_text, question_text) ==
    accumulated_accuracy_in(answer_text, question_text, UsesModel, analysis)

\* Faulty variant: the difficulty is compared without regard to case.
DifficultyAdjustAnyCase(score, difficulty) ==
    IF ToLower(difficulty) = "hard" THEN (score * 9) \div 10
    ELSE IF ToLower(difficulty) = "easy" THEN (score * 11) \div 10
    ELSE score

\* if difficulty == 'hard': score *= 0.9 / elif difficulty == 'easy': score *= 1.1
DifficultyAdjust(score, difficulty) ==
    IF difficulty = "hard" THEN (score * 9) \div 10
    ELSE IF difficulty = "easy" THEN (score * 11) \div 10
    ELSE score

\* Faulty variant: the score is capped before the adjustment.
CapThenAdjust(score, difficulty) == DifficultyAdjust(Min(score, Pts(100)), difficulty)

\* Faulty variant: the adjusted score is returned without the cap.
AdjustWithoutCap(score, difficulty) == DifficultyAdjust(score, difficulty)

\* The adjustment, then return min(score, 100.0).
AdjustAndCap(score, difficulty) == Min(DifficultyAdjust(score, difficulty), Pts(100))

evaluate_accuracy(answer_text, question_text, difficulty) ==
    AdjustAndCap(accumulated_accuracy(answer_text, question_text), difficulty)

(***************************************************************************)
(* AnswerEvaluator._evaluate_communication                                 *)
(***************************************************************************)
\* max(sentence_lengths) - min(sentence_lengths)
LengthVariance(lengths) ==
    (CHOOSE x \in Range(lengths) : \A y \in Range(lengths) : x >= y)
    - (CHOOSE x \in Range(lengths) : \A y \in Range(lengths) : x <= y)

accumulated_communication(answer_text, answer_lower) ==
    LET with_model ==
              Pts(Min(analysis.transitions * 5, 15))
            + (IF analysis.conjunctions > 0
               THEN Pts(Min(analysis.conjunctions * 2, 10)) ELSE 0)
            + (IF Len(analysis.sentences) > 1 /\ LengthVariance(analysis.sentences) > 5
               THEN Pts(5) ELSE 0)
        comm_keywords == CountIn(quality_indicators.communication, answer_lower)
        structure_count == CountIn(structure_words, answer_lower)
        positive_count == CountIn(quality_indicators.positive, answer_lower)
    IN  Pts(50)
        + (IF UsesModel THEN with_model ELSE 0)
        + Pts(Min(comm_keywords * 8, 20))
        + Pts(Min(structure_count * 5, 15))
        + Pts(Min(positive_count * 3, 15))

evaluate_communication(answer_text, answer_lower) ==
    Min(accumulated_communication(answer_text, answer_lower), Pts(100))

(***************************************************************************)
(* AnswerEvaluator._evaluate_confidence                                    *)
(***************************************************************************)
\* Faulty variant: the deduction for hedging phrases has no limit.
ConfidenceHedgingUncapped(answer_text, answer_lower) ==
    LET confident_count == CountIn(confident_phrases, answer_lower)
        hedging_count == CountIn(hedging_phrases, answer_lower)
        negative_count == CountIn(quality_indicators.negative, answer_lower)
        score == Pts(50)
                 + Pts(Min(confident_count * 10, 30))
                 - Pts(hedging_count * 5)
                 + (IF AnyIn(experience_cues, answer_lower) THEN Pts(10) ELSE 0)
                 - Pts(Min(negative_count * 3, 15))
    IN  Max(Min(score, Pts(100)), Pts(0))

evaluate_confidence(answer_text, answer_lower) ==
    LET confident_count == CountIn(confident_phrases, answer_lower)
        hedging_count == CountIn(hedging_phrases, answer_lower)
        negative_count == CountIn(quality_indicators.negative, answer_lower)
        score == Pts(50)
                 + Pts(Min(confident_count * 10, 30))
                 - Pts(Min(hedging_count * 5, 20))
                 + (IF AnyIn(experience_cues, answer_lower) THEN Pts(10) ELSE 0)
                 - Pts(Min(negative_count * 3, 15))
    IN  Max(Min(score, Pts(100)), Pts(0))

\* Faulty variant: the four sub-scores weigh the same.
overall_score_unweighted(clarity_score, accuracy_score, communication_score, confidence_score) ==
    (clarity_score * 25 + accuracy_score * 25
        + communication_score * 25 + confidence_score * 25) \div 100

(***************************************************************************)
(* The overall score: the weighted average of evaluate_answer.             *)
(***************************************************************************)
overall_score(clarity_score, accuracy_score, communication_score, confidence_score) ==
    (clarity_score * 25 + accuracy_score * 30
        + communication_score * 25 + confidence_score * 20) \div 100

(***************************************************************************)
(* AnswerEvaluator._generate_feedback                                      *)
(***************************************************************************)
generate_feedback(clarity, accuracy, communication, confidence, overall, answer_text, length) ==
    LET overall_part ==
            IF overall >= Pts(80) THEN
                << "Excellent answer! You demonstrated strong understanding and communication skills." >>
            ELSE IF overall >= Pts(65) THEN
                << "Good answer with room for improvement in some areas." >>
            ELSE IF overall >= Pts(50) THEN
                << "Adequate answer, but consider providing more detail and structure." >>
            ELSE
                << "Your answer needs significant improvement. Focus on clarity and providing specific examples." >>
        clarity_part ==
            IF clarity < Pts(60) THEN
                << "Work on making your answer clearer and more structured. Use complete sentences and proper punctuation." >>
            ELSE IF clarity >= Pts(80) THEN << "Your answer was clear and well-structured." >>
            ELSE << >>
        accuracy_part ==
            IF accuracy < Pts(60) THEN
                << "Try to be more specific and relevant to the question. Include relevant examples or details." >>
            ELSE IF accuracy >= Pts(80) THEN
                << "Your answer was accurate and directly addressed the question." >>
            ELSE << >>
        communication_part ==
            IF communication < Pts(60) THEN
                << "Improve your communication by using transition words and organizing your thoughts better." >>
            ELSE IF communication >= Pts(80) THEN << "You communicated your ideas effectively." >>
            ELSE << >>
        confidence_part ==
            IF confidence < Pts(60) THEN
                << "Be more confident in your responses. Avoid hedging language and provide concrete examples from your experience." >>
            ELSE IF confidence >= Pts(80) THEN
                << "You demonstrated confidence in your knowledge and experience." >>
            ELSE << >>
        length_part ==
            IF length < minimum_length THEN
                << "Your answer is too short. Aim for at least " \o ToString(minimum_length)
                   \o " characters to provide a comprehensive response." >>
            ELSE IF length > ideal_length * 3 THEN
                << "Your answer is quite long. Consider being more concise while maintaining key points." >>
            ELSE << >>
    IN  Join(" ", overall_part \o clarity_part \o accuracy_part \o communication_part
                  \o confidence_part \o length_part)

(***************************************************************************)
(* AnswerEvaluator._identify_strengths and _identify_improvements          *)
(***************************************************************************)
\* Faulty variant: the list is returned as collected, empty or not.
StrengthsWithoutFallback(clarity, accuracy, communication, confidence, answer_lower) ==
       (IF clarity >= Pts(70) THEN << "Clear and well-structured response" >> ELSE << >>)
    \o (IF accuracy >= Pts(70) THEN << "Accurate and relevant information" >> ELSE << >>)
    \o (IF communication >= Pts(70) THEN << "Effective communication" >> ELSE << >>)
    \o (IF confidence >= Pts(70) THEN << "Confident expression" >> ELSE << >>)
    \o (IF AnyIn(strength_example_cues, answer_lower)
        THEN << "Used specific examples" >> ELSE << >>)
    \o (IF AnyIn(quality_indicators.technical, answer_lower)
        THEN << "Demonstrated technical knowledge" >> ELSE << >>)

identify_strengths(clarity, accuracy, communication, confidence, answer_lower) ==
    LET strengths ==
               (IF clarity >= Pts(70) THEN << "Clear and well-structured response" >> ELSE << >>)
            \o (IF accuracy >= Pts(70) THEN << "Accurate and relevant information" >> ELSE << >>)
            \o (IF communication >= Pts(70) THEN << "Effective communication" >> ELSE << >>)
            \o (IF confidence >= Pts(70) THEN << "Confident expression" >> ELSE << >>)
            \o (IF AnyIn(strength_example_cues, answer_lower)
                THEN << "Used specific examples" >> ELSE << >>)
            \o (IF AnyIn(quality_indicators.technical, answer_lower)
                THEN << "Demonstrated technical knowledge" >> ELSE << >>)
    IN  IF strengths = << >> THEN << "Attempted to answer the question" >> ELSE strengths

\* Faulty variant: a score of exactly 70 also gets its label.
ImprovementsUpTo70(clarity, accuracy, communication, confidence, length) ==
    LET improvements ==
               (IF clarity <= Pts(70)
                THEN << "Improve clarity and structure of your response" >> ELSE << >>)
            \o (IF accuracy <= Pts(70)
                THEN << "Provide more accurate and relevant information" >> ELSE << >>)
            \o (IF communication <= Pts(70)
                THEN << "Enhance communication skills and organization" >> ELSE << >>)
            \o (IF confidence <= Pts(70)
                THEN << "Build confidence in your responses" >> ELSE << >>)
            \o (IF length < minimum_length THEN << "Provide more detailed answers" >>
                ELSE IF length > ideal_length * 3
                THEN << "Be more concise while maintaining key points" >> ELSE << >>)
    IN  IF improvements = << >>
        THEN << "Continue practicing to maintain your strong performance" >>
        ELSE improvements

identify_improvements(clarity, accuracy, communication, confidence, length) ==
    LET improvements ==
               (IF clarity < Pts(70)
                THEN << "Improve clarity and structure of your response" >> ELSE << >>)
            \o (IF accuracy < Pts(70)
                THEN << "Provide more accurate and relevant information" >> ELSE << >>)
            \o (IF communication < Pts(70)
                THEN << "Enhance communication skills and organization" >> ELSE << >>)
            \o (IF confidence < Pts(70)
                THEN << "Build confidence in your responses" >> ELSE << >>)
            \o (IF length < minimum_length THEN << "Provide more detailed answers" >>
                ELSE IF length > ideal_length * 3
                THEN << "Be more concise while maintaining key points" >> ELSE << >>)
    IN  IF improvements = << >>
        THEN << "Continue practicing to maintain your strong performance" >>
        ELSE improvements

(***************************************************************************)
(* AnswerEvaluator._generate_failed_evaluation                             *)
(***************************************************************************)
generate_failed_evaluation(reason) ==
    [ clarity |-> Pts(0), accuracy |-> Pts(0), communication |-> Pts(0),
      confidence |-> Pts(0), overall |-> Pts(0), feedback |-> reason,
      strengths |-> << >>,
      improvements |-> << "Provide a complete answer to the question" >> ]

(***************************************************************************)
(* AnswerEvaluator.evaluate_answer                                         *)
(***************************************************************************)
\* Faulty variant: the length is taken before the surrounding whitespace is stripped.
TooShortUntrimmed(answer_text) ==
    answer_text = None \/ answer_text = "" \/ Len(answer_text) < 10

\* if not answer_text or len(answer_text.strip()) < 10
TooShort(answer_text) ==
    answer_text = None \/ answer_text = "" \/ Len(Strip(answer_text)) < 10

\* The four sub-scores and the overall score, as computed.
ComputeScores(answer_text, question_text, difficulty) ==
    LET answer_lower == Lower(answer_text)
        answer_length == Len(answer_text)
        clarity_score == evaluate_clarity(answer_text, answer_length)
        accuracy_score == evaluate_accuracy(answer_text, question_text, difficulty)
        communication_score == evaluate_communication(answer_text, answer_lower)
        confidence_score == evaluate_confidence(answer_text, answer_lower)
    IN  [ clarity |-> clarity_score, accuracy |-> accuracy_score,
          communication |-> communication_score, confidence |-> confidence_score,
          overall |-> overall_score(clarity_score, accuracy_score,
                                    communication_score, confidence_score) ]

\* Faulty variant: the feedback gets the clarity and the accuracy score in
\* each other's place.
BuildResultScoresSwapped(s, answer_text) ==
    [ clarity |-> Round2(s.clarity),
      accuracy |-> Round2(s.accuracy),
      communication |-> Round2(s.communication),
      confidence |-> Round2(s.confidence),
      overall |-> Round2(s.overall),
      feedback |-> generate_feedback(s.accuracy, s.clarity, s.communication,
                                     s.confidence, s.overall, answer_text, Len(answer_text)),
      strengths |-> identify_strengths(s.clarity, s.accuracy, s.communication,
                                       s.confidence, Lower(answer_text)),
      improvements |-> identify_improvements(s.clarity, s.accuracy, s.communication,
                                             s.confidence, Len(answer_text)) ]

\* Faulty variant: the improvements are made from the rounded scores and the
\* accuracy and the clarity score in each other's place.
BuildResultImprovementsSwapped(s, answer_text) ==
    [ clarity |-> Round2(s.clarity),
      accuracy |-> Round2(s.accuracy),
      communication |-> Round2(s.communication),
      confidence |-> Round2(s.confidence),
      overall |-> Round2(s.overall),
      feedback |-> generate_feedback(s.clarity, s.accuracy, s.communication,
                                     s.confidence, s.overall, answer_text, Len(answer_text)),
      strengths |-> identify_strengths(s.clarity, s.accuracy, s.communication,
                                       s.confidence, Lower(answer_text)),
      improvements |-> identify_improvements(Round2(s.accuracy), Round2(s.clarity),
                                             Round2(s.communication), Round2(s.confidence),
                                             Len(answer_text)) ]

\* The dict returned for an answer that is not too short.
BuildResult(s, answer_text) ==
    [ clarity |-> Round2(s.clarity),
      accuracy |-> Round2(s.accuracy),
      communication |-> Round2(s.communication),
      confidence |-> Round2(s.confidence),
      overall |-> Round2(s.overall),
      feedback |-> generate_feedback(s.clarity, s.accuracy, s.communication,
                                     s.confidence, s.overall, answer_text, Len(answer_text)),
      strengths |-> identify_strengths(s.clarity, s.accuracy, s.communication,
                                       s.confidence, Lower(answer_text)),
      improvements |-> identify_improvements(s.clarity, s.accuracy, s.communication,
                                             s.confidence, Len(answer_text)) ]

\* evaluate_answer as a function of its arguments
evaluate_answer(answer_text, question_text, difficulty) ==
    IF TooShort(answer_text)
    THEN generate_failed_evaluation("Answer is too short or empty.")
    ELSE BuildResult(ComputeScores(answer_text, question_text, difficulty), answer_text)

NoCall == [ answer_text |-> None, question_text |-> "", difficulty |-> None ]
NoScores == [ clarity |-> -1, accuracy |-> -1, communication |-> -1,
              confidence |-> -1, overall |-> -1 ]
NoEvaluation == [ clarity |-> -1, accuracy |-> -1, communication |-> -1,
                  confidence |-> -1, overall |-> -1, feedback |-> "",
                  strengths |-> << >>, improvements |-> << >> ]
NoEarlier == [ call |-> NoCall, analysis |-> NoAnalysis, evaluation |-> NoEvaluation,
               since |-> 0 ]

(***************************************************************************)
(* AnswerEvaluator.__init__                                                *)
(***************************************************************************)
\* Faulty variant: the OSError of spacy.load is not caught.
TryLoadUncaught ==
    /\ cpc = "loading"
    /\ Len(attempts) < Len(models_to_try)
    /\ LET model_name == models_to_try[Len(attempts) + 1]
       IN  /\ attempts' = Append(attempts, model_name)
           /\ IF model_name \in installed
              THEN /\ nlp' = model_name
                   /\ spacy_available' = TRUE
                   /\ cpc' = "loaded"
              ELSE /\ cpc' = "raised"
                   /\ UNCHANGED << nlp, spacy_available >>
    /\ UNCHANGED << quality_indicators, minimum_length, ideal_length, installed,
                    call_vars, earlier, gen_vars, fill_vars, table_vars, app_vars, threads >>

\* Faulty variant: the loop does not break after a model is loaded.
TryLoadNoBreak ==
    /\ cpc = "loading"
    /\ Len(attempts) < Len(models_to_try)
    /\ LET model_name == models_to_try[Len(attempts) + 1]
       IN  /\ attempts' = Append(attempts, model_name)
           /\ IF model_name \in installed
              THEN /\ nlp' = model_name
                   /\ spacy_available' = TRUE
              ELSE UNCHANGED << nlp, spacy_available >>
    /\ UNCHANGED << cpc, quality_indicators, minimum_length, ideal_length, installed,
                    call_vars, earlier, gen_vars, fill_vars, table_vars, app_vars, threads >>

\* One iteration of `for model_name in models_to_try`: spacy.load succeeds
\* on an installed model, and the loop breaks; it raises OSError on any
\* other, and the loop continues.
TryLoad ==
    /\ cpc = "loading"
    /\ Len(attempts) < Len(models_to_try)
    /\ LET model_name == models_to_try[Len(attempts) + 1]
       IN  /\ attempts' = Append(attempts, model_name)
           /\ IF model_name \in installed
              THEN /\ nlp' = model_name
                   /\ spacy_available' = TRUE
                   /\ cpc' = "loaded"
              ELSE UNCHANGED << nlp, spacy_available, cpc >>
    /\ UNCHANGED << quality_indicators, minimum_length, ideal_length, installed,
                    call_vars, earlier, gen_vars, fill_vars, table_vars, app_vars, threads >>

\* After the loop: the indicator lists and the two lengths are set.
FinishInit ==
    /\ \/ cpc = "loaded"
       \/ cpc = "loading" /\ Len(attempts) = Len(models_to_try)
    /\ quality_indicators' = indicator_lists
    /\ minimum_length' = MinimumLength
    /\ ideal_length' = IdealLength
    /\ cpc' = "ready"
    /\ UNCHANGED << nlp, spacy_available, installed, attempts,
                    call_vars, earlier, gen_vars, fill_vars, table_vars, app_vars, threads >>

(***************************************************************************)
(* Calls of evaluate_answer. The locals of a call are fresh.               *)
(***************************************************************************)
\* A call with arguments from the given sets, up to the fast-fail return.
EvalCallOn(answer_texts, question_texts, difficulties, analyses) ==
    /\ cpc = "ready"
    /\ \E answer_text \in answer_texts, question_text \in question_texts,
          difficulty \in difficulties,
          reported \in (IF UsesModel THEN analyses ELSE { NoAnalysis }) :
         /\ call' = [ answer_text |-> answer_text, question_text |-> question_text,
                      difficulty |-> difficulty ]
         /\ analysis' = reported
         /\ scores' = NoScores
         /\ IF TooShort(answer_text)
            THEN /\ evaluation' = generate_failed_evaluation("Answer is too short or empty.")
                 /\ epc' = "done"
            ELSE /\ evaluation' = NoEvaluation
                 /\ epc' = "scoring"
    /\ earlier' = IF earlier = NoEarlier THEN earlier
                  ELSE [ earlier EXCEPT !.since = Min(earlier.since + 1, MaxSince) ]
    /\ UNCHANGED << evaluator_fields, init_vars, gen_vars, fill_vars,
                    table_vars, app_vars, threads >>

\* The first call made on the evaluator.
EvalCall ==
    /\ epc = "idle"
    /\ EvalCallOn(Answers, Questions, EvalDifficulties, Analyses)

\* Calculate individual scores and the overall score.
EvalScores ==
    /\ epc = "scoring"
    /\ scores' = ComputeScores(call.answer_text, call.question_text, call.difficulty)
    /\ epc' = "scored"
    /\ UNCHANGED << evaluator_fields, init_vars, call, analysis, evaluation, earlier,
                    gen_vars, fill_vars, table_vars, app_vars, threads >>

\* Faulty variant: the call keeps the length of its answer as the ideal length.
EvalReturnKeepsLength ==
    /\ epc = "scored"
    /\ evaluation' = BuildResult(scores, call.answer_text)
    /\ ideal_length' = Len(call.answer_text)
    /\ epc' = "done"
    /\ UNCHANGED << nlp, spacy_available, quality_indicators, minimum_length,
                    init_vars, call, analysis, scores, earlier,
                    gen_vars, fill_vars, table_vars, app_vars, threads >>

\* Feedback, strengths, improvements and the returned dict.
EvalReturn ==
    /\ epc = "scored"
    /\ evaluation' = BuildResult(scores, call.answer_text)
    /\ epc' = "done"
    /\ UNCHANGED << evaluator_fields, init_vars, call, analysis, scores, earlier,
                    gen_vars, fill_vars, table_vars, app_vars, threads >>

\* A call made when no call is under way: the first one or a later one.
RepeatCall ==
    /\ epc \in { "idle", "done" }
    /\ EvalCallOn(RepeatAnswers, RepeatQuestions, RepeatDifficulties, RepeatAnalyses)

\* History: the call that has just returned is kept, with what the model
\* reported and what the call returned.
Remember ==
    /\ epc = "done"
    /\ earlier' = [ call |-> call, analysis |-> analysis, evaluation |-> evaluation,
                    since |-> 0 ]
    /\ UNCHANGED << evaluator_fields, init_vars, call_vars, gen_vars, fill_vars,
                    table_vars, app_vars, threads >>

(***************************************************************************)
(* src/app.py: the Interview, Answer and UserProfile rows and the handlers *)
(* that write them. A row keeps the columns the handlers read again; a     *)
(* column that holds NULL is the empty tuple, a column that holds v is the *)
(* tuple << v >>. A request for an id that is not in the database is       *)
(* answered 404 and changes nothing.                                       *)
(***************************************************************************)
MaxInterviews == 2
MaxAnswers == 3

\* the users that send requests
Users == { "owner", "other" }
NoProfiles == [ user \in Users |-> [ total_interviews |-> 0, average_score |-> 0 ] ]

\* What submit_answer is sent: an answer that is rejected and one that is
\* scored, for the first or the last question of an interview.
SubmittedAnswers == { "hi", "I know SQL well" }

\* Interview(user_id=current_user.id, domain=domain_name)
NewInterview(user, d) ==
    [ user_id |-> user, domain |-> d, status |-> "in_progress", overall_score |-> << >> ]

\* start_interview: the Interview row; its five Question rows are the pairs
\* of its id and an order number.
CreateInterview ==
    /\ Len(interviews) < MaxInterviews
    /\ \E user \in Users :
         interviews' = Append(interviews, NewInterview(user, DefaultDomain))
    /\ UNCHANGED << answers, profiles, gen_vars, fill_vars, table_vars, eval_vars, threads >>

\* submit_answer: the answer is evaluated and stored as a new Answer row;
\* question.interview.user_id != current_user.id is answered 403.
SubmitAnswer ==
    /\ Len(answers) < MaxAnswers
    /\ \E user \in Users, interview_id \in 1..Len(interviews), order \in { 1, InterviewQuestions },
          answer_text \in SubmittedAnswers, question_text \in RepeatQuestions :
         IF interviews[interview_id].user_id = user
         THEN LET evaluation_ == evaluate_answer(answer_text, question_text, "medium")
              IN  answers' = Append(answers,
                      [ question_id |-> << interview_id, order >>,
                        overall_score |-> evaluation_.overall ])
         ELSE UNCHANGED answers
    /\ UNCHANGED << interviews, profiles, gen_vars, fill_vars, table_vars, eval_vars, threads >>

\* db.session.query(Answer).join(Question).filter(Question.interview_id == interview_id)
AnswersOf(rows, interview_id) ==
    SelectSeq(rows, LAMBDA a : a.question_id[1] = interview_id)

\* sum([ans.overall_score for ans in answers]) / len(answers), to the ten
\* thousandth of a point below
MeanOverall(rows) ==
    Sum([ k \in 1..Len(rows) |-> rows[k].overall_score ]) \div Len(rows)

\* The statistics complete_interview writes to the profile of the user: the
\* number of the user's completed interviews and the average of their
\* overall scores that are not NULL, or 0.0.
ProfileOf(user, rows) ==
    LET completed == SelectSeq(rows, LAMBDA r : r.user_id = user /\ r.status = "completed")
        scored == SelectSeq(completed, LAMBDA r : r.overall_score # << >>)
    IN  [ total_interviews |-> Len(completed),
          average_score |->
              IF scored = << >> THEN 0
              ELSE Sum([ k \in 1..Len(scored) |-> scored[k].overall_score[1] ])
                       \div Len(scored) ]

\* complete_interview; another user's request is answered 403
CompleteInterview ==
    /\ \E user \in Users, interview_id \in 1..Len(interviews) :
         /\ interviews[interview_id].user_id = user
         /\ LET rows == AnswersOf(answers, interview_id)
                completed ==
                    [ interviews EXCEPT
                        ![interview_id].overall_score =
                            IF rows # << >> THEN << MeanOverall(rows) >> ELSE @,
                        ![interview_id].status = "completed" ]
            IN  /\ interviews' = completed
                /\ profiles' = [ profiles EXCEPT ![user] = ProfileOf(user, completed) ]
    /\ UNCHANGED << answers, gen_vars, fill_vars, table_vars, eval_vars, threads >>


(***************************************************************************)
(* Initial states and specifications.                                      *)
(***************************************************************************)
NoFill == [ template |-> "", domain |-> "", rnd |-> 0 ]
NoFillResult == [ text |-> "", type |-> "" ]

\* Both engines constructed, no call made; no model could be loaded.
Init ==
    /\ gpc = "idle"
    /\ request = NoRequest
    /\ domain = DefaultDomain
    /\ questions = << >>
    /\ used_templates = {}
    /\ i = 0
    /\ selected = << >>
    /\ returned = << >>
    /\ question_rows = << >>
    /\ fill_in = NoFill
    /\ fill_out = NoFillResult
    /\ domain_knowledge = load_domain_knowledge
    /\ question_templates = load_question_templates
    /\ installed = {}
    /\ cpc = "ready"
    /\ attempts = models_to_try
    /\ nlp = None
    /\ spacy_available = FALSE
    /\ quality_indicators = indicator_lists
    /\ minimum_length = MinimumLength
    /\ ideal_length = IdealLength
    /\ epc = "idle"
    /\ call = NoCall
    /\ analysis = NoAnalysis
    /\ scores = NoScores
    /\ evaluation = NoEvaluation
    /\ earlier = NoEarlier
    /\ threads = NoThreads
    /\ interviews = << >>
    /\ answers = << >>
    /\ profiles = NoProfiles

\* Both engines constructed, no call made; at most one model is installed,
\* and __init__ tried the models up to it.
InitEval ==
    /\ gpc = "idle"
    /\ request = NoRequest
    /\ domain = DefaultDomain
    /\ questions = << >>
    /\ used_templates = {}
    /\ i = 0
    /\ selected = << >>
    /\ returned = << >>
    /\ question_rows = << >>
    /\ fill_in = NoFill
    /\ fill_out = NoFillResult
    /\ domain_knowledge = load_domain_knowledge
    /\ question_templates = load_question_templates
    /\ \E k \in 0..Len(models_to_try) :
         /\ installed = (IF k = 0 THEN {} ELSE { models_to_try[k] })
         /\ attempts = SubSeq(models_to_try, 1, IF k = 0 THEN Len(models_to_try) ELSE k)
         /\ nlp = LoadModel(IF k = 0 THEN {} ELSE { models_to_try[k] })
         /\ spacy_available = (k # 0)
    /\ cpc = "ready"
    /\ quality_indicators = indicator_lists
    /\ minimum_length = MinimumLength
    /\ ideal_length = IdealLength
    /\ epc = "idle"
    /\ call = NoCall
    /\ analysis = NoAnalysis
    /\ scores = NoScores
    /\ evaluation = NoEvaluation
    /\ earlier = NoEarlier
    /\ threads = NoThreads
    /\ interviews = << >>
    /\ answers = << >>
    /\ profiles = NoProfiles

\* The generator constructed; AnswerEvaluator.__init__ has set nlp = None and
\* spacy_available = False and is about to try the models, of which any set
\* may be installed.
InitConstruct ==
    /\ gpc = "idle"
    /\ request = NoRequest
    /\ domain = DefaultDomain
    /\ questions = << >>
    /\ used_templates = {}
    /\ i = 0
    /\ selected = << >>
    /\ returned = << >>
    /\ question_rows = << >>
    /\ fill_in = NoFill
    /\ fill_out = NoFillResult
    /\ domain_knowledge = load_domain_knowledge
    /\ question_templates = load_question_templates
    /\ installed \in SUBSET Range(models_to_try)
    /\ cpc = "loading"
    /\ attempts = << >>
    /\ nlp = None
    /\ spacy_available = FALSE
    /\ quality_indicators = None
    /\ minimum_length = None
    /\ ideal_length = None
    /\ epc = "idle"
    /\ call = NoCall
    /\ analysis = NoAnalysis
    /\ scores = NoScores
    /\ evaluation = NoEvaluation
    /\ earlier = NoEarlier
    /\ threads = NoThreads
    /\ interviews = << >>
    /\ answers = << >>
    /\ profiles = NoProfiles

GenNext == Generate \/ GenerateRounds \/ StartInterview \/ GenStep \/ GenReturn \/ StoreQuestions

\* Calls of generate_questions, directly and by start_interview.
SpecGen == Init /\ [][GenNext]_vars

(***************************************************************************)
(* _fill_template and _determine_question_type on every template of every  *)
(* domain and every outcome of the random source.                          *)
(***************************************************************************)
FillCall ==
    /\ fill_in = NoFill
    /\ \E d \in KnownDomains, rnd \in 0..MaxFillRnd :
         \E k \in 1..Len(question_templates[d]) :
            LET template == question_templates[d][k]
            IN  /\ fill_in' = [ template |-> template, domain |-> d, rnd |-> rnd ]
                /\ fill_out' = [ text |-> fill_template(template, d, domain_knowledge[d],
                                                        "medium", rnd),
                                 type |-> determine_question_type(template, d) ]
    /\ UNCHANGED << gen_vars, table_vars, app_vars, eval_vars, threads >>

\* The same two calls on a template that is not in the tables.
TypeCall ==
    /\ fill_in = NoFill
    /\ \E template \in CueTemplates, rnd \in 0..MaxFillRnd :
         /\ fill_in' = [ template |-> template, domain |-> DefaultDomain, rnd |-> rnd ]
         /\ fill_out' = [ text |-> fill_template(template, DefaultDomain,
                                                 domain_knowledge[DefaultDomain],
                                                 "medium", rnd),
                          type |-> determine_question_type(template, DefaultDomain) ]
    /\ UNCHANGED << gen_vars, table_vars, app_vars, eval_vars, threads >>

\* Knowledge tables passed to _fill_template: the one __init__ builds, and
\* the same with concept groups of one member and of none among the groups
\* of the first domain.
PairKnowledge ==
    { load_domain_knowledge }
    \cup { [ load_domain_knowledge EXCEPT ![DefaultDomain].concepts = groups ] :
             groups \in { << << "OOP", << "Encapsulation" >> >>,
                             << "Databases", << "SQL", "NoSQL" >> >> >>,
                          << << "OOP", << >> >> >> } }

\* Both engines constructed, no call made; the knowledge table is one of
\* PairKnowledge.
InitPair ==
    /\ gpc = "idle"
    /\ request = NoRequest
    /\ domain = DefaultDomain
    /\ questions = << >>
    /\ used_templates = {}
    /\ i = 0
    /\ selected = << >>
    /\ returned = << >>
    /\ question_rows = << >>
    /\ fill_in = NoFill
    /\ fill_out = NoFillResult
    /\ domain_knowledge \in PairKnowledge
    /\ question_templates = load_question_templates
    /\ installed = {}
    /\ cpc = "ready"
    /\ attempts = models_to_try
    /\ nlp = None
    /\ spacy_available = FALSE
    /\ quality_indicators = indicator_lists
    /\ minimum_length = MinimumLength
    /\ ideal_length = IdealLength
    /\ epc = "idle"
    /\ call = NoCall
    /\ analysis = NoAnalysis
    /\ scores = NoScores
    /\ evaluation = NoEvaluation
    /\ earlier = NoEarlier
    /\ threads = NoThreads
    /\ interviews = << >>
    /\ answers = << >>
    /\ profiles = NoProfiles

\* _fill_template on a template that holds a pair of concept placeholders.
PairCall ==
    /\ fill_in = NoFill
    /\ \E rnd \in 0..MaxFillRnd :
         \E k \in 1..Len(question_templates[DefaultDomain]) :
            LET template == question_templates[DefaultDomain][k]
            IN  /\ In("{concept1}", template) /\ In("{concept2}", template)
                /\ fill_in' = [ template |-> template, domain |-> DefaultDomain, rnd |-> rnd ]
                /\ fill_out' = [ text |-> fill_template(template, DefaultDomain,
                                                        domain_knowledge[DefaultDomain],
                                                        "medium", rnd),
                                 type |-> determine_question_type(template, DefaultDomain) ]
    /\ UNCHANGED << gen_vars, table_vars, app_vars, eval_vars, threads >>

SpecPair == InitPair /\ [][PairCall]_vars

FillNext == FillCall \/ TypeCall

SpecFill == Init /\ [][FillNext]_vars

\* Calls of evaluate_answer, with and without a loaded model.
EvalNext == EvalCall \/ EvalScores \/ EvalReturn

SpecEval == InitEval /\ [][EvalNext]_vars

\* Construction of the evaluator, then evaluate_answer calls one after
\* another.
RepeatNext == TryLoad \/ FinishInit \/ RepeatCall \/ EvalScores \/ EvalReturn \/ Remember

SpecRepeat == InitConstruct /\ [][RepeatNext]_vars

\* Requests to start_interview, submit_answer and complete_interview in any
\* order.
SpecApp == Init /\ [][CreateInterview \/ SubmitAnswer \/ CompleteInterview]_vars

\* generate_questions calls running concurrently.
ThreadNext ==
    \E t \in ThreadIds :
        ThreadCall(t) \/ ThreadSelect(t) \/ ThreadAppend(t) \/ ThreadReturn(t)

SpecThreads == Init /\ [][ThreadNext]_vars

Spec == SpecGen


(***************************************************************************)
(* Properties.                                                             *)
(***************************************************************************)
\* The texts _fill_template can make of a template in the call under way.
Fills(template) ==
    { FillTemplate(template, domain, request.difficulty, rnd) : rnd \in 0..MaxRnd }

\* C1: generate_questions returns exactly as many records as were asked for
\* (none for a count below one), one appended per iteration in generation
\* order, record k made from the k-th selected template; start_interview
\* numbers the stored questions 1, 2, ..., count in that same order.
C1_CountRecordsNumberedInOrder ==
    /\ gpc # "raised"
    /\ Len(questions) = i
    /\ Len(selected) = i
    /\ i <= Max(request.num_questions, 0)
    /\ \A k \in 1..Len(questions) :
          /\ questions[k].text \in Fills(selected[k])
          /\ questions[k].type = QuestionType(selected[k], domain)
    /\ gpc \in { "returned", "stored" } =>
          /\ Len(returned) = Max(request.num_questions, 0)
          /\ returned = questions
    /\ gpc = "stored" =>
          /\ Len(question_rows) = request.num_questions
          /\ \A k \in 1..Len(question_rows) :
                /\ question_rows[k].order_number = k
                /\ question_rows[k].question_text = returned[k].text

C1_Witness ==
    /\ gpc = "stored"
    /\ request.domain \in KnownDomains
    /\ Len(question_rows) = InterviewQuestions
    /\ question_rows[InterviewQuestions].order_number = InterviewQuestions

\* C2: within one call a template is selected again only after every template
\* of the domain's pool has been selected; a call that asks for no more
\* questions than the pool holds selects distinct templates.
C2_NoReuseBeforePoolExhausted ==
    /\ \A k \in 1..Len(selected) : \A j \in 1..(k - 1) :
          selected[j] = selected[k] =>
              Range(templates) \subseteq { selected[m] : m \in 1..(k - 1) }
    /\ Len(selected) <= Len(templates) =>
          Cardinality(Range(selected)) = Len(selected)

C2_Witness ==
    /\ gpc = "returned"
    /\ Len(selected) > Len(templates)
    /\ \E k \in 1..Len(selected) : \E j \in 1..(k - 1) : selected[j] = selected[k]

\* A brace pair around a name, as in {concept1}.
HasPlaceholder(s) ==
    \E a \in Occurrences("{", s) : \E b \in Occurrences("}", s) :
        /\ b > a + 1
        /\ \A k \in (a + 1)..(b - 1) : IsWordChar(s, k)

\* C3: no text made by _fill_template holds a placeholder of the form {name},
\* for every domain, every template and every outcome of the random source.
C3_NoPlaceholderLeft ==
    fill_in # NoFill => ~HasPlaceholder(fill_out.text)

C3_Witness ==
    /\ fill_in # NoFill
    /\ In("{concept1}", fill_in.template)
    /\ In("{concept2}", fill_in.template)
    /\ ~HasPlaceholder(fill_out.text)
    /\ fill_out.text # fill_in.template

\* C4: a call for a domain that is not a key of domain_knowledge raises no
\* error, generates from the knowledge and templates of the default domain
\* 'IT/Software Engineering', and every record carries that default domain.
C4_UnknownDomainFallsBackToDefault ==
    (gpc # "idle" /\ request.domain \notin KnownDomains) =>
        /\ domain = "IT/Software Engineering"
        /\ gpc # "raised"
        /\ \A k \in 1..Len(questions) :
              /\ questions[k].domain = "IT/Software Engineering"
              /\ selected[k] \in Range(question_templates["IT/Software Engineering"])
              /\ questions[k].text \in
                    { FillTemplate(selected[k], "IT/Software Engineering",
                                   request.difficulty, rnd) : rnd \in 0..MaxRnd }
        /\ gpc = "returned" => returned = questions

C4_Witness ==
    /\ gpc = "returned"
    /\ request.domain = "Marketing"
    /\ Len(returned) >= 2
    /\ returned[2].domain = "IT/Software Engineering"

\* C5: a call with a count of zero or less returns the empty list, selects no
\* template and raises no error.
C5_NonPositiveCountReturnsEmpty ==
    (gpc # "idle" /\ request.num_questions <= 0) =>
        /\ gpc # "raised"
        /\ selected = << >>
        /\ used_templates = {}
        /\ questions = << >>
        /\ gpc = "returned" => returned = << >>

C5_Witness ==
    /\ gpc = "returned"
    /\ request.num_questions < 0
    /\ returned = << >>

\* The failed result, as generate_failed_evaluation writes it.
FailedResult ==
    [ clarity |-> 0, accuracy |-> 0, communication |-> 0, confidence |-> 0,
      overall |-> 0, feedback |-> "Answer is too short or empty.",
      strengths |-> << >>,
      improvements |-> << "Provide a complete answer to the question" >> ]

\* The answer is missing, empty, or shorter than ten characters once stripped.
FastFailCase ==
    \/ call.answer_text = None
    \/ call.answer_text = ""
    \/ Len(Strip(call.answer_text)) < 10

\* C6: evaluate_answer returns the failed result exactly when the answer is
\* missing, empty or shorter than ten characters after stripping, and then
\* no sub-score has been computed.
C6_FailedResultIffTooShort ==
    /\ epc = "done" =>
          /\ (evaluation = FailedResult) <=> FastFailCase
          /\ FastFailCase => scores = NoScores
          /\ ~FastFailCase => scores # NoScores
    /\ epc \in { "scoring", "scored" } => ~FastFailCase

C6_Witness ==
    /\ epc = "done"
    /\ call.answer_text # None
    /\ Len(call.answer_text) >= 10
    /\ Len(Strip(call.answer_text)) < 10
    /\ evaluation = FailedResult

ScoreNames == { "clarity", "accuracy", "communication", "confidence", "overall" }

\* C7: the four sub-scores and the overall score lie between 0 and 100, as
\* computed and as returned, with and without a loaded model.
C7_ScoresWithinRange ==
    /\ epc \in { "scored", "done" } /\ scores # NoScores =>
          \A n \in ScoreNames : scores[n] >= Pts(0) /\ scores[n] <= Pts(100)
    /\ epc = "done" =>
          \A n \in ScoreNames : evaluation[n] >= Pts(0) /\ evaluation[n] <= Pts(100)

C7_Witness ==
    /\ epc = "done"
    /\ UsesModel
    /\ scores # NoScores
    /\ accumulated_accuracy(call.answer_text, call.question_text) > Pts(100)
    /\ evaluation.accuracy = Pts(100)

\* 100 times the weighted sum of the returned sub-scores.
WeightedReturned ==
    25 * evaluation.clarity + 30 * evaluation.accuracy
        + 25 * evaluation.communication + 20 * evaluation.confidence

\* C8: the overall score returned for an answer that is not too short equals
\* 0.25 clarity + 0.30 accuracy + 0.25 communication + 0.20 confidence of the
\* returned sub-scores, to within a hundredth of a point.
C8_OverallIsWeightedSum ==
    (epc = "done" /\ scores # NoScores) =>
        /\ 100 * evaluation.overall - WeightedReturned <= Scale
        /\ WeightedReturned - 100 * evaluation.overall <= Scale
        /\ scores.overall = (25 * scores.clarity + 30 * scores.accuracy
                              + 25 * scores.communication + 20 * scores.confidence) \div 100

C8_Witness ==
    /\ epc = "done"
    /\ scores # NoScores
    /\ evaluation.accuracy # scores.accuracy
    /\ evaluation.accuracy # evaluation.confidence
    /\ evaluation.clarity # evaluation.communication
    /\ 100 * evaluation.overall # WeightedReturned

\* The accuracy of the call under way had it been made with difficulty d.
AccuracyAt(d) ==
    IF d = call.difficulty THEN scores.accuracy
    ELSE evaluate_accuracy(call.answer_text, call.question_text, d)

\* C9: for the same answer, question and mode the accuracy at 'hard' is at
\* most that at 'medium', which is at most that at 'easy'; the accumulated
\* score is multiplied by 0.9 or 1.1 first and capped at 100 last.
C9_AccuracyOrderedByDifficulty ==
    (epc \in { "scored", "done" } /\ scores # NoScores) =>
        LET accumulated == accumulated_accuracy(call.answer_text, call.question_text)
            multiplied == IF call.difficulty = "hard" THEN (accumulated * 9) \div 10
                          ELSE IF call.difficulty = "easy" THEN (accumulated * 11) \div 10
                          ELSE accumulated
        IN  /\ AccuracyAt("hard") <= AccuracyAt("medium")
            /\ AccuracyAt("medium") <= AccuracyAt("easy")
            /\ scores.accuracy = Min(multiplied, Pts(100))

C9_Witness ==
    /\ epc = "done"
    /\ scores # NoScores
    /\ call.difficulty = "easy"
    /\ accumulated_accuracy(call.answer_text, call.question_text) > Pts(100)
    /\ scores.accuracy = Pts(100)
    /\ AccuracyAt("hard") < AccuracyAt("medium")

\* C10: a difficulty other than exactly 'easy' or 'hard' is treated as
\* 'medium': the result is the one the same call returns with 'medium'.
C10_OtherDifficultyIsMedium ==
    (epc = "done" /\ call.difficulty \notin { "easy", "hard" }) =>
        evaluation = evaluate_answer(call.answer_text, call.question_text, "medium")

C10_Witness ==
    /\ epc = "done"
    /\ call.difficulty = "Hard"
    /\ scores # NoScores
    /\ evaluation = evaluate_answer(call.answer_text, call.question_text, "medium")
    /\ evaluation # evaluate_answer(call.answer_text, call.question_text, "hard")

\* The call that has returned is the kept call made again: the same
\* arguments, and the same report of the model about the two texts.
SameCallAgain ==
    /\ epc = "done"
    /\ earlier # NoEarlier
    /\ earlier.call = call
    /\ earlier.analysis = analysis

\* C11: a call of evaluate_answer with the arguments of an earlier call (and
\* the same report of the model) returns what the earlier call returned,
\* however many calls were made in between; once the evaluator is
\* constructed no step changes nlp, spacy_available, quality_indicators,
\* minimum_length or ideal_length.
C11_PureAndHistoryIndependent ==
    /\ [](SameCallAgain => evaluation = earlier.evaluation)
    /\ [][cpc = "ready" => UNCHANGED evaluator_fields]_vars

C11_Witness ==
    /\ SameCallAgain
    /\ earlier.since = MaxSince
    /\ UsesModel
    /\ scores # NoScores
    /\ evaluation = earlier.evaluation
    /\ quality_indicators = indicator_lists

NoModelInstalled == installed \cap Range(models_to_try) = {}
ResultFields == { "clarity", "accuracy", "communication", "confidence", "overall",
                  "feedback", "strengths", "improvements" }

Rank(order, model) == CHOOSE k \in 1..Len(order) : order[k] = model

\* C13 as amended: the models are tried in the fixed order en_core_web_md,
\* en_core_web_lg, en_core_web_sm; a model is tried only after every model
\* before it in that order failed to load; loading stops at the first
\* success, so at most one model is loaded and the one kept is the first
\* installed model of that order; when none is installed all three are tried.
C13_FirstInstalledInPreferenceOrder ==
    /\ attempts = SubSeq(models_to_try, 1, Len(attempts))
    /\ \A k \in 1..(Len(attempts) - 1) : attempts[k] \notin installed
    /\ Cardinality({ k \in 1..Len(attempts) : attempts[k] \in installed }) <= 1
    /\ nlp # None =>
          /\ nlp = attempts[Len(attempts)]
          /\ nlp \in installed
          /\ \A m \in installed : Rank(models_to_try, nlp) <= Rank(models_to_try, m)
          /\ spacy_available
    /\ (cpc = "ready" /\ nlp = None) => (NoModelInstalled /\ attempts = models_to_try)

C13_Witness ==
    /\ cpc = "ready"
    /\ installed = { "en_core_web_lg", "en_core_web_sm" }
    /\ attempts = << "en_core_web_md", "en_core_web_lg" >>
    /\ nlp = "en_core_web_lg"

\* C13 as stated: the models are tried from the most capable to the least
\* capable, so the model kept is the most capable one installed.
C13_MostCapableInstalledIsKept ==
    (cpc = "ready" /\ nlp # None) =>
        \A m \in installed : Rank(by_capability, nlp) <= Rank(by_capability, m)

\* C14: with generate_questions calls interleaved in any way, every call
\* selects from its own used set only: it returns as many records as it was
\* asked for, one per selected template, a template recurs in a call only
\* after the call has selected every template of the pool, the used set of
\* a call holds templates that this call selected, and the two tables of
\* the generator are as they were built.
C14_ConcurrentCallsIndependent ==
    /\ domain_knowledge = load_domain_knowledge
    /\ question_templates = load_question_templates
    /\ \A t \in ThreadIds :
          LET frame == threads[t]
              pool == Range(TemplatesOf(frame.domain))
          IN  /\ frame.pc # "raised"
              /\ Len(frame.questions) = frame.i
              /\ Len(frame.selected) = frame.i + (IF frame.pc = "chosen" THEN 1 ELSE 0)
              /\ frame.i <= frame.request.num_questions
              /\ frame.pc = "returned" =>
                    /\ Len(frame.returned) = frame.request.num_questions
                    /\ frame.returned = frame.questions
              /\ \A k \in 1..Len(frame.questions) :
                    frame.questions[k].text =
                        FillTemplate(frame.selected[k], frame.domain, "medium", 0)
              /\ frame.used_templates \subseteq Range(frame.selected)
              /\ \A k \in 1..Len(frame.selected) : \A j \in 1..(k - 1) :
                    frame.selected[j] = frame.selected[k] =>
                        pool \subseteq { frame.selected[m] : m \in 1..(k - 1) }

C14_Witness ==
    /\ threads["first"].pc = "chosen"
    /\ threads["second"].pc = "chosen"
    /\ threads["first"].i = PoolLimit
    /\ threads["second"].i = 1
    /\ threads["first"].domain = threads["second"].domain
    /\ threads["first"].selected[PoolLimit + 1] = threads["second"].selected[1]
    /\ threads["second"].selected[2] = threads["first"].selected[1]

\* The accuracy _evaluate_accuracy computes for the call under way when no
\* model is loaded.
LexicalAccuracy ==
    AdjustAndCap(accumulated_accuracy_in(call.answer_text, call.question_text,
                                         FALSE, NoAnalysis),
                 call.difficulty)

\* The keyword lists of the question and of the answer have no common member.
ShareNoKeyword ==
    Range(KeywordsOf(call.question_text)) \cap Range(KeywordsOf(call.answer_text)) = {}

\* C15: for an answer and a question that share no lexical keyword, the
\* accuracy computed without a model is never higher than the accuracy
\* computed with a model for the same answer, question and difficulty.
C15_LexicalNeverAboveModelBacked ==
    (epc \in { "scored", "done" } /\ scores # NoScores /\ UsesModel /\ ShareNoKeyword) =>
        LexicalAccuracy <= scores.accuracy

\* The types whose cue words occur in the text, capitals disregarded.
CuedTypes(text) ==
    LET lowered == Lower(text)
    IN  { type \in { "behavioral", "situational", "technical" } :
            \E word \in (IF type = "behavioral" THEN BehavioralCues
                         ELSE IF type = "situational" THEN SituationalCues
                         ELSE TechnicalCues) : In(word, lowered) }

\* C16: a question gets exactly one type, decided by the cue words of its
\* template as it reads before any placeholder is filled: behavioral if a
\* behavioral cue occurs, else situational if a situational cue occurs, else
\* technical if a technical cue occurs, else general; the values filled in
\* play no part.
C16_TypeByCuePriority ==
    fill_in # NoFill =>
        LET cued == CuedTypes(fill_in.template)
        IN  /\ fill_out.type \in { "behavioral", "situational", "technical", "general" }
            /\ ("behavioral" \in cued) = (fill_out.type = "behavioral")
            /\ ("situational" \in cued /\ "behavioral" \notin cued)
                   = (fill_out.type = "situational")
            /\ (cued = { "technical" }) = (fill_out.type = "technical")
            /\ (cued = {}) = (fill_out.type = "general")

\* A template with a behavioral and a technical cue has been typed and its
\* placeholder filled.
C16_Witness ==
    /\ fill_in # NoFill
    /\ { "behavioral", "technical" } \subseteq CuedTypes(fill_in.template)
    /\ fill_out.type = "behavioral"
    /\ fill_out.text # fill_in.template

\* The text is the template with its two concept placeholders replaced by two
\* different members of one group of the knowledge table.
PairFromOneGroup(text, template, knowledge) ==
    \E g \in 1..Len(knowledge.concepts) :
        LET group == knowledge.concepts[g][2]
        IN  \E a, b \in 1..Len(group) :
                /\ a # b
                /\ group[a] # group[b]
                /\ text = Replace(Replace(template, "{concept1}", group[a]),
                                  "{concept2}", group[b])

RECURSIVE Distinct(_)
Distinct(seq) ==
    IF seq = << >> THEN << >>
    ELSE LET front == Distinct(SubSeq(seq, 1, Len(seq) - 1))
             last == seq[Len(seq)]
         IN  IF last \in Range(front) THEN front ELSE Append(front, last)

\* C18: without a model the keyword list of the answer holds at most 10
\* keywords, none a stopword, each longer than 3 characters, none twice: it
\* is the first 10 of the different qualifying words in order of first
\* occurrence.
C18_KeywordsDistinct ==
    (epc # "idle" /\ ~UsesModel /\ ~TooShort(call.answer_text)) =>
        LET keywords == KeywordsOf(call.answer_text)
            qualifying == Distinct(SelectSeq(FindWords(Lower(call.answer_text)),
                                             LAMBDA w : w \notin stop_words /\ Len(w) > 3))
        IN  /\ Len(keywords) <= 10
            /\ \A k \in 1..Len(keywords) :
                   keywords[k] \notin stop_words /\ Len(keywords[k]) > 3
            /\ \A j, k \in 1..Len(keywords) : j # k => keywords[j] # keywords[k]
            /\ keywords = SubSeq(qualifying, 1, Min(10, Len(qualifying)))

\* C19: no word or phrase is in two of the four indicator lists (positive,
\* negative, technical, communication) of a constructed evaluator.
C19_IndicatorListsDisjoint ==
    cpc = "ready" =>
        \A a, b \in { "positive", "negative", "technical", "communication" } :
            a # b => Range(quality_indicators[a]) \cap Range(quality_indicators[b]) = {}

\* The sentences of _generate_feedback: one for each band of the overall
\* score, two for each of the four scores, two for the length.
OverallSentences ==
    [ excellent |-> "Excellent answer! You demonstrated strong understanding and communication skills.",
      good |-> "Good answer with room for improvement in some areas.",
      adequate |-> "Adequate answer, but consider providing more detail and structure.",
      poor |-> "Your answer needs significant improvement. Focus on clarity and providing specific examples." ]
AxisSentences ==
    [ clarity |->
        [ low |-> "Work on making your answer clearer and more structured. Use complete sentences and proper punctuation.",
          high |-> "Your answer was clear and well-structured." ],
      accuracy |->
        [ low |-> "Try to be more specific and relevant to the question. Include relevant examples or details.",
          high |-> "Your answer was accurate and directly addressed the question." ],
      communication |->
        [ low |-> "Improve your communication by using transition words and organizing your thoughts better.",
          high |-> "You communicated your ideas effectively." ],
      confidence |->
        [ low |-> "Be more confident in your responses. Avoid hedging language and provide concrete examples from your experience.",
          high |-> "You demonstrated confidence in your knowledge and experience." ] ]
LengthSentences ==
    [ short |-> "Your answer is too short. Aim for at least 20 characters to provide a comprehensive response.",
      long |-> "Your answer is quite long. Consider being more concise while maintaining key points." ]

\* The band of the overall score of the call under way.
OverallBand ==
    IF scores.overall >= Pts(80) THEN "excellent"
    ELSE IF scores.overall >= Pts(65) THEN "good"
    ELSE IF scores.overall >= Pts(50) THEN "adequate"
    ELSE "poor"

\* The sentence about one score: one below 60, one from 80 on, none between.
AxisPart(axis) ==
    IF scores[axis] < Pts(60) THEN << AxisSentences[axis].low >>
    ELSE IF scores[axis] >= Pts(80) THEN << AxisSentences[axis].high >>
    ELSE << >>

\* The remark about the length of the answer.
LengthPart ==
    IF Len(call.answer_text) < 20 THEN << LengthSentences.short >>
    ELSE IF Len(call.answer_text) > 300 THEN << LengthSentences.long >>
    ELSE << >>

\* C20: the feedback of an evaluation that is not the failed one is, joined
\* by single spaces and in this order: the sentence of the band of the overall
\* score (excellent from 80, good from 65, adequate from 50, else needs
\* improvement); for clarity, accuracy, communication and confidence one
\* sentence if the score is below 60 or at least 80 and none otherwise; at
\* most one remark on the length (too short below 20 characters, else too
\* long above 300).
C20_FeedbackAssembled ==
    (epc = "done" /\ ~TooShort(call.answer_text)) =>
        evaluation.feedback =
            Join(" ", << OverallSentences[OverallBand] >>
                      \o AxisPart("clarity") \o AxisPart("accuracy")
                      \o AxisPart("communication") \o AxisPart("confidence")
                      \o LengthPart)

\* An evaluation whose feedback holds a sentence for the overall score, none
\* for at least one score between 60 and 80, and a remark on the length.
C20_Witness ==
    /\ epc = "done"
    /\ ~TooShort(call.answer_text)
    /\ \E axis \in DOMAIN AxisSentences : AxisPart(axis) = << >>
    /\ \E axis \in DOMAIN AxisSentences : scores[axis] >= Pts(80)
    /\ \E axis \in DOMAIN AxisSentences : scores[axis] < Pts(60)
    /\ LengthPart # << >>
    /\ evaluation.feedback # OverallSentences[OverallBand]

\* The labels _identify_strengths and _identify_improvements give to the four
\* scores, in the order they are appended.
Axes == << "clarity", "accuracy", "communication", "confidence" >>
AxisLabels ==
    [ clarity |-> [ strength |-> "Clear and well-structured response",
                    improvement |-> "Improve clarity and structure of your response" ],
      accuracy |-> [ strength |-> "Accurate and relevant information",
                     improvement |-> "Provide more accurate and relevant information" ],
      communication |-> [ strength |-> "Effective communication",
                          improvement |-> "Enhance communication skills and organization" ],
      confidence |-> [ strength |-> "Confident expression",
                       improvement |-> "Build confidence in your responses" ] ]

\* An evaluation has been returned for an answer that was not rejected.
Evaluated == epc = "done" /\ ~TooShort(call.answer_text)

\* The members of list occur in the order they have in order, each once.
InOrderOf(order, list) ==
    \A j, k \in 1..Len(list) :
        j < k => \E a, b \in 1..Len(order) : a < b /\ order[a] = list[j] /\ order[b] = list[k]

\* The strength labels in the order of the tests, and which of them are due.
StrengthOrder ==
    [ k \in 1..4 |-> AxisLabels[Axes[k]].strength ]
    \o << "Used specific examples", "Demonstrated technical knowledge" >>
StrengthsDue ==
    { AxisLabels[a].strength : a \in { a \in Range(Axes) : scores[a] >= Pts(70) } }
    \cup (IF \E word \in { "example", "instance", "experience" } :
                In(word, Lower(call.answer_text))
          THEN { "Used specific examples" } ELSE {})
    \cup (IF \E word \in Range(quality_indicators.technical) :
                In(word, Lower(call.answer_text))
          THEN { "Demonstrated technical knowledge" } ELSE {})

\* C21: the strengths of an evaluation that is not the failed one are never
\* empty and keep the order clarity, accuracy, communication, confidence,
\* examples, technical; the label of a score is there iff the score is at
\* least 70, the examples label iff the answer holds 'example', 'instance' or
\* 'experience', the technical label iff it holds a technical indicator; the
\* fallback label is there iff none of these is due, and then alone.
C21_StrengthsByCondition ==
    Evaluated =>
        /\ evaluation.strengths # << >>
        /\ InOrderOf(StrengthOrder, evaluation.strengths) \/ StrengthsDue = {}
        /\ \A label \in Range(StrengthOrder) :
               (label \in Range(evaluation.strengths)) = (label \in StrengthsDue)
        /\ ("Attempted to answer the question" \in Range(evaluation.strengths))
               = (StrengthsDue = {})
        /\ StrengthsDue = {} => evaluation.strengths = << "Attempted to answer the question" >>

\* An evaluation with the label of a score, the examples label and the
\* technical label among its strengths.
C21_Witness ==
    /\ Evaluated
    /\ Len(evaluation.strengths) >= 3
    /\ Len(evaluation.strengths) < 6
    /\ "Used specific examples" \in Range(evaluation.strengths)
    /\ "Demonstrated technical knowledge" \in Range(evaluation.strengths)

\* The improvement labels that are due for the call under way.
ImprovementsDue ==
    { AxisLabels[a].improvement : a \in { a \in Range(Axes) : scores[a] < Pts(70) } }
    \cup (IF Len(call.answer_text) < 20 THEN { "Provide more detailed answers" }
          ELSE IF Len(call.answer_text) > 300
          THEN { "Be more concise while maintaining key points" } ELSE {})

\* C22: the improvements of an evaluation that is not the failed one are
\* never empty; the label of a score is there iff the score is below 70; of
\* the two length labels at most one is there, the too-short one iff the
\* answer has fewer than 20 characters, else the too-long one iff it has more
\* than 300; the fallback label is there iff no other label is due, and then
\* alone.
C22_ImprovementsByCondition ==
    Evaluated =>
        LET labels == Range(evaluation.improvements)
        IN  /\ evaluation.improvements # << >>
            /\ \A a \in Range(Axes) :
                   (AxisLabels[a].improvement \in labels) = (scores[a] < Pts(70))
            /\ ("Provide more detailed answers" \in labels) = (Len(call.answer_text) < 20)
            /\ ("Be more concise while maintaining key points" \in labels)
                   = (Len(call.answer_text) >= 20 /\ Len(call.answer_text) > 300)
            /\ ~({ "Provide more detailed answers",
                   "Be more concise while maintaining key points" } \subseteq labels)
            /\ ("Continue practicing to maintain your strong performance" \in labels)
                   = (ImprovementsDue = {})
            /\ ImprovementsDue = {} =>
                   evaluation.improvements
                       = << "Continue practicing to maintain your strong performance" >>
            /\ ImprovementsDue # {} => labels = ImprovementsDue

\* An evaluation with a score of exactly 70, the label of a lower score and a
\* length label among its improvements.
C22_Witness ==
    /\ Evaluated
    /\ \E a \in Range(Axes) : scores[a] = Pts(70)
    /\ \E a \in Range(Axes) : AxisLabels[a].improvement \in Range(evaluation.improvements)
    /\ \E label \in { "Provide more detailed answers",
                      "Be more concise while maintaining key points" } :
           label \in Range(evaluation.improvements)

\* The labels of the four scores found in the strengths and in the
\* improvements of the evaluation.
AxisStrengths == { a \in Range(Axes) : AxisLabels[a].strength \in Range(evaluation.strengths) }
AxisImprovements ==
    { a \in Range(Axes) : AxisLabels[a].improvement \in Range(evaluation.improvements) }

\* C23: in an evaluation that is not the failed one each of the four scores
\* has either its strength label (iff it is at least 70) or its improvement
\* label (iff it is below 70), never both and never neither, so the two lists
\* hold four such labels together, and the fallback label of the improvements
\* is there only with all four strength labels.
C23_OneLabelPerAxis ==
    Evaluated =>
        /\ \A a \in Range(Axes) :
               /\ (a \in AxisStrengths) = (scores[a] >= Pts(70))
               /\ (a \in AxisImprovements) = (scores[a] < Pts(70))
               /\ (a \in AxisStrengths) # (a \in AxisImprovements)
        /\ Cardinality(AxisStrengths) + Cardinality(AxisImprovements) = 4
        /\ "Continue practicing to maintain your strong performance"
               \in Range(evaluation.improvements) => AxisStrengths = Range(Axes)

\* An evaluation with two scores labelled as strengths and two as
\* improvements.
C23_Witness ==
    /\ Evaluated
    /\ Cardinality(AxisStrengths) = 2
    /\ Cardinality(AxisImprovements) = 2

\* The positions of the round of selections that position n is in, up to n,
\* for a pool of P templates.
RoundUpTo(n, P) == ((((n - 1) \div P) * P) + 1)..n

\* C24: in a call over a pool of P templates the selections at positions
\* kP+1 .. (k+1)P are a permutation of the pool for every k, so a call for
\* m*P questions selects every template m times; the used set is emptied
\* only at the positions kP+1 (it holds the selections of the round under
\* way), and a template is selected twice in a row only at the positions kP
\* and kP+1.
C24_RoundsArePermutations ==
    LET P == Len(templates)
        n == Len(selected)
    IN  (gpc \in { "loop", "returned", "stored" } /\ P > 0) =>
            /\ \A k \in 0..(n \div P) :
                   (k + 1) * P <= n =>
                       /\ { selected[j] : j \in (k * P + 1)..((k + 1) * P) } = Range(templates)
                       /\ \A a, b \in (k * P + 1)..((k + 1) * P) :
                              a # b => selected[a] # selected[b]
            /\ n > 0 =>
                   /\ used_templates = { selected[j] : j \in RoundUpTo(n, P) }
                   /\ Cardinality(used_templates) = Cardinality(RoundUpTo(n, P))
            /\ \A j \in 1..(n - 1) : selected[j] = selected[j + 1] => j % P = 0
            /\ (gpc = "returned" /\ n % P = 0) =>
                   \A t \in Range(templates) :
                       Cardinality({ j \in 1..n : selected[j] = t }) = n \div P

\* A call for twice the pool has returned, and the selection that began its
\* second round repeated the one before it.
C24_Witness ==
    /\ gpc = "returned"
    /\ Len(templates) > 1
    /\ Len(selected) = 2 * Len(templates)
    /\ selected[Len(templates)] = selected[Len(templates) + 1]

\* C25: a returned overall score of 0 means the answer was rejected as too
\* short: every other evaluation has an overall score above 0. Without a
\* model clarity is at least 50, accuracy at least 36, communication at least
\* 50 and confidence at least 15, and confidence is never above 90, so the
\* limits 0 and 100 of confidence are never what decides it.
C25_ZeroOnlyWhenRejected ==
    epc = "done" =>
        /\ (evaluation.overall = Pts(0)) = TooShort(call.answer_text)
        /\ ~TooShort(call.answer_text) =>
               /\ evaluation.overall > Pts(0)
               /\ scores.overall > Pts(0)
               /\ scores.confidence >= Pts(15)
               /\ scores.confidence <= Pts(90)
               /\ ~UsesModel =>
                      /\ scores.clarity >= Pts(50)
                      /\ scores.accuracy >= Pts(36)
                      /\ scores.communication >= Pts(50)

\* An evaluation without a model in which confidence is as low as it gets and
\* accuracy as low as it gets without a model.
C25_Witness ==
    /\ Evaluated
    /\ ~UsesModel
    /\ scores.confidence = Pts(15)
    /\ scores.accuracy = Pts(36)
    /\ evaluation.overall > Pts(0)

\* What the clarity score of the call under way holds beyond the base of 50,
\* the two length increments and the increment for a capital first letter.
SentenceGain ==
    LET length == Len(call.answer_text)
    IN  scores.clarity - Pts(50)
        - (IF length >= 20 THEN Pts(20) ELSE 0)
        - (IF 20 <= length /\ length <= 200 THEN Pts(10) ELSE 0)
        - (IF IsUpper(SubSeq(call.answer_text, 1, 1)) THEN Pts(5) ELSE 0)

\* The answer holds one of the characters . ! ?
HasTerminal == \E k \in 1..Len(call.answer_text) : IsTerminal(call.answer_text, k)

\* C26: without a model the clarity increments of 10 for more than one
\* sentence and of 5 for punctuation come together or not at all: the split
\* on runs of . ! ? gives more than one segment iff the answer holds one of
\* these characters, so clarity gains 15 for an answer that holds one (a
\* single sentence ending with a period included) and nothing otherwise.
C26_SentenceAndPunctuationTogether ==
    (epc \in { "scored", "done" } /\ ~UsesModel /\ ~TooShort(call.answer_text)) =>
        /\ (SplitSentences(call.answer_text) > 1) = HasTerminal
        /\ SentenceGain = (IF HasTerminal THEN Pts(15) ELSE 0)

\* An answer of one sentence that ends with its only period has been scored
\* without a model.
C26_Witness ==
    /\ epc = "done"
    /\ ~UsesModel
    /\ ~TooShort(call.answer_text)
    /\ { k \in 1..Len(call.answer_text) : IsTerminal(call.answer_text, k) }
           = { Len(call.answer_text) }
    /\ SentenceGain = Pts(15)

\* The status of an interview is 'in_progress' or 'completed' and, once
\* 'completed', stays so.
StatusNeverGoesBack ==
    [][\A k \in 1..Len(interviews) :
            /\ interviews[k].status \in { "in_progress", "completed" }
            /\ interviews[k].status = "completed" => interviews'[k].status = "completed"]_vars

\* C27: over any sequence of start_interview, submit_answer and
\* complete_interview requests the status of an interview, once 'completed',
\* stays 'completed', and every completed interview with at least one stored
\* answer has as overall_score the mean of the overall scores of all the
\* answers stored for its questions, those submitted again or after the
\* completion included.
C27_CompletedScoreIsMean ==
    /\ StatusNeverGoesBack
    /\ [](\A k \in 1..Len(interviews) :
            (interviews[k].status = "completed" /\ AnswersOf(answers, k) # << >>) =>
                interviews[k].overall_score = << MeanOverall(AnswersOf(answers, k)) >>)
====
